---- MODULE Spec2Model ----
(***************************************************************************)
(* bloomd: the filter manager (src/bloomd/filter_manager.py), the API      *)
(* handler in front of it (src/bloomd/conn_handler.py) and the scaling     *)
(* bloom filter they drive.  Every command handler runs to completion on   *)
(* the single Twisted reactor thread, so each handler is one action.       *)
(***************************************************************************)
EXTENDS Integers, Sequences, FiniteSets, TLC

(***************************************************************************)
(* Bounds of the model.                                                    *)
(***************************************************************************)
\* keys are 1..MaxKey
MaxKey == 3
\* config "initial_capacity", scaled down from config.py DEFAULTS
InitialCapacity == 1
\* the capacity override a create may carry is InitialCapacity + CustomExtra
CustomExtra == 1
\* config "scale_size", scaled down from config.py DEFAULTS
ScaleSize == 2
\* bits a sub-filter allots per key of capacity
BitsPerKey == 4
\* sets / checks / page-outs the registered entries have counted together
MaxSets == 2
MaxChecks == 1
MaxPageOuts == 1
\* the same three under Spec2
MaxSets2 == 1
MaxChecks2 == 1
MaxPageOuts2 == 1
\* the same under SpecFaults
MaxSetsF == 1
MaxPageOutsF == 1
\* sets / checks under SpecLines
MaxSetsL == 2
MaxChecksL == 2
\* sets / checks under SpecAlias
MaxSetsA == 1
MaxChecksA == 2

(***************************************************************************)
(* Names, keys and paths.  A name is a sequence of tokens; the token       *)
(* "bloomd." stands for that seven-character substring, every other token  *)
(* for one character, so that str.replace can be modelled as what it does.  *)
(***************************************************************************)
FILTER_PREFIX == "bloomd."

\* the names clients send: one filter under Spec, two under Spec2
Names == {<<"b">>}
Names2 == {<<"bloomd.", "a">>, <<"b">>}
NamesF == {<<"b">>, <<"c">>}
\* the token "-" stands for one character outside [a-zA-Z0-9._]
BadChar == "-"
NamesL == {<<"b">>, <<"b", BadChar>>, <<BadChar, "b">>}
\* a name with the prefix inside it and the name it is discovered under
NamesA == {<<"bloomd.", "a">>, <<"a">>}
AllNames == Names \cup Names2 \cup NamesF \cup NamesL \cup NamesA

\* a name all of whose characters are in [a-zA-Z0-9._]
ValidNamesFullMatch(name) == name # <<>> /\ \A i \in 1..Len(name) : name[i] # BadChar

\* VALID_NAMES.match(name): re.match looks for the pattern at the start of
\* the string and does not require it to reach the end
ValidNamesMatch(name) == name # <<>> /\ name[1] # BadChar

\* the keys clients send: all of them under Spec, key 1 alone under Spec2
Keys == 1..MaxKey
Keys2 == {1}

\* multi / bulk carry one or two keys
KeyListsOf(K) == {<<k>> : k \in K} \cup {<<k1, k2>> : k1 \in K, k2 \in K}
KeyLists == KeyListsOf(Keys)

\* os.path.join(data_dir, FILTER_PREFIX + name)
PathOf(name) == <<FILTER_PREFIX>> \o name

\* c.replace(FILTER_PREFIX, ""): every occurrence of the prefix is removed
FilterNameOf(c) == SelectSeq(c, LAMBDA t : t # FILTER_PREFIX)

Paths == {PathOf(n) : n \in AllNames}

\* names the registry can hold: the ones created and the ones discovered
RegNames == AllNames \cup {FilterNameOf(p) : p \in Paths}

(***************************************************************************)
(* Configuration.  A key missing from a config dict is Absent.             *)
(***************************************************************************)
Absent == 0 - 1
\* probabilities in units of 1E-4: DEFAULTS["default_probability"], and the
\* 0.001 the tests pass to create
DefaultProb == 1
CustomProb == 10

\* the manager's config: no size / capacity / byte_size keys
ManagerConfig ==
    [initial_capacity |-> InitialCapacity, default_probability |-> DefaultProb,
     size |-> Absent, capacity |-> Absent, byte_size |-> Absent]

NoCustom == [initial_capacity |-> Absent, default_probability |-> Absent]

\* the overrides a create can carry after parsing
Customs ==
    {NoCustom,
     [initial_capacity |-> InitialCapacity + CustomExtra, default_probability |-> CustomProb]}

\* dict.update(custom) for the keys a custom dict of create can hold
UpdateCustom(cfg, custom) ==
    [cfg EXCEPT !.initial_capacity =
                    IF custom.initial_capacity = Absent THEN @ ELSE custom.initial_capacity,
                !.default_probability =
                    IF custom.default_probability = Absent THEN @ ELSE custom.default_probability]

(***************************************************************************)
(* Disk.  A filter directory holds an optional config file and the files   *)
(* data.000.mmap, data.001.mmap, ...: files[i] is data.(i-1).mmap.  A file  *)
(* is its bit array plus the header (count, capacity).  The mapping is      *)
(* shared, so a bit set through the map is a bit of the file; the count of  *)
(* the header is written by flush / close.                                 *)
(***************************************************************************)
NoDir == [exists |-> FALSE]
NoConfig == [present |-> FALSE]
\* a config file whose bytes cPickle.loads rejects (an empty or cut-off file)
Unreadable ==
    [present |-> TRUE,
     cfg |-> [initial_capacity |-> Absent, default_probability |-> Absent,
              size |-> Absent, capacity |-> Absent, byte_size |-> Absent]]
EmptyDir == [exists |-> TRUE, config |-> NoConfig, files |-> <<>>]

\* Filter.filter = None
NoFilter == <<>>

HEADER_BYTES == 1

NumBits(cap) == BitsPerKey * cap

\* bytes of the file of a sub-filter of the given capacity
BitmapBytes(cap) == ((NumBits(cap) + 7) \div 8) + HEADER_BYTES

NumHashes == 2

\* the two hashes of a key: key 3 collides with key 1
H1(key) == IF key = 1 \/ key = 3 THEN 0 ELSE 2 * key - 2
H2(key) == 1

\* indices (h1 + i*h2) mod M for i in [0,k)
HashBits(key, cap) == {(H1(key) + i * H2(key)) % NumBits(cap) : i \in 0..(NumHashes - 1)}

SumSeq(s, F(_)) ==
    LET RECURSIVE Go(_)
        Go(i) == IF i = 0 THEN 0 ELSE F(s[i]) + Go(i - 1)
    IN Go(Len(s))

(***************************************************************************)
(* BloomFilter and ScalingBloomFilter (pyblooming).  An open sub-filter is *)
(* [file, count, cap]: the file it maps and its in-memory count.           *)
(***************************************************************************)
\* NextFile always answering data.000.mmap
NextFileFirst(d) == 1

\* Filter._next_file: data.%03d.mmap numbered by the .mmap files present
NextFile(d) == Len(d.files) + 1

BFContains(files, sub, key) == HashBits(key, sub.cap) \subseteq files[sub.file].bits

\* key in ScalingBloomFilter: any sub-filter reports membership
SBFContains(subs, files, key) == \E i \in 1..Len(subs) : BFContains(files, subs[i], key)

\* ScalingBloomFilter.add(key, check_first): a full tail first grows the
\* chain, in the file the filenames provider (Filter._next_file) names; with
\* check_first a key that any sub-filter reports is not inserted
SBFAdd(subs, files, key, check_first) ==
    LET tail == subs[Len(subs)]
        grow == tail.count >= tail.cap
        newcap == ScaleSize * tail.cap
        files1 == IF grow THEN Append(files, [bits |-> {}, count |-> 0, cap |-> newcap])
                  ELSE files
        subs1 == IF grow
                 THEN Append(subs, [file |-> NextFile([files |-> files]), count |-> 0,
                                    cap |-> newcap])
                 ELSE subs
        t == Len(subs1)
        f == subs1[t].file
    IN  IF check_first /\ SBFContains(subs1, files1, key)
        THEN [subs |-> subs1, files |-> files1, res |-> FALSE]
        ELSE [subs |-> [subs1 EXCEPT ![t].count = @ + 1],
              files |-> [files1 EXCEPT ![f].bits = @ \cup HashBits(key, subs1[t].cap)],
              res |-> TRUE]

\* ScalingBloomFilter.flush: every sub-filter writes its count to its header
SBFFlush(subs, files) ==
    [i \in 1..Len(files) |->
        IF \E j \in 1..Len(subs) : subs[j].file = i
        THEN [files[i] EXCEPT !.count = (CHOOSE s \in {subs[j] : j \in 1..Len(subs)} : s.file = i).count]
        ELSE files[i]]

SBFLen(subs) == SumSeq(subs, LAMBDA s : s.count)
SBFTotalCapacity(subs) == SumSeq(subs, LAMBDA s : s.cap)
SBFTotalBitmapSize(subs) == SumSeq(subs, LAMBDA s : BitmapBytes(s.cap))

(***************************************************************************)
(* Counters, Filter and ProxyFilter.  A registry entry is                  *)
(*   [kind, path, config, counters, dirty, filter]                         *)
(* with kind "Filter" or "Proxy"; a Proxy has no dirty flag and no filter. *)
(* The operations take the entry and its directory and return both.        *)
(***************************************************************************)
\* Counters.__init__
NewCounters ==
    [set_hits |-> 0, set_misses |-> 0, check_hits |-> 0, check_misses |-> 0,
     page_outs |-> 0, page_ins |-> 0]

\* Counters.sets, Counters.checks
CounterSets(c) == c.set_hits + c.set_misses
CounterChecks(c) == c.check_hits + c.check_misses

\* FilterDiscover opening the first .mmap file only
FilterDiscoverFirstOnly(d) ==
    [i \in 1..(IF Len(d.files) > 0 THEN 1 ELSE 0) |->
        [file |-> i, count |-> d.files[i].count, cap |-> d.files[i].cap]]

\* Filter._discover: one sub-filter per .mmap file in sorted order, count
\* and capacity re-read from the header of the file
FilterDiscover(d) ==
    [i \in 1..Len(d.files) |-> [file |-> i, count |-> d.files[i].count, cap |-> d.files[i].cap]]

\* Filter._create_filter: the ScalingBloomFilter adopts the given chain, or
\* opens a first sub-filter of initial_capacity in the next file
FilterCreateFilter(cfg, subs, d) ==
    IF subs # <<>>
    THEN [subs |-> subs, d |-> d]
    ELSE [subs |-> <<[file |-> NextFile(d), count |-> 0, cap |-> cfg.initial_capacity]>>,
          d |-> [d EXCEPT !.files =
                    Append(@, [bits |-> {}, count |-> 0, cap |-> cfg.initial_capacity])]]

\* FilterInit starting the entry clean
FilterInitClean(config, path, custom, d) ==
    LET cfg == UpdateCustom(config, custom)
        c == FilterCreateFilter(cfg, FilterDiscover(d), d)
    IN  [e |-> [kind |-> "Filter", path |-> path, config |-> cfg,
                counters |-> [NewCounters EXCEPT !.page_ins = @ + 1],
                dirty |-> FALSE, filter |-> c.subs],
         d |-> c.d]

\* Filter.__init__(config, name, path, custom, discover=True)
FilterInit(config, path, custom, d) ==
    LET cfg == UpdateCustom(config, custom)
        c == FilterCreateFilter(cfg, FilterDiscover(d), d)
    IN  [e |-> [kind |-> "Filter", path |-> path, config |-> cfg,
                counters |-> [NewCounters EXCEPT !.page_ins = @ + 1],
                dirty |-> TRUE, filter |-> c.subs],
         d |-> c.d]

\* Filter.__len__, Filter.capacity, Filter.byte_size
FilterLen(e) == SBFLen(e.filter)
FilterCapacity(e) == SBFTotalCapacity(e.filter)
FilterByteSize(e) == SBFTotalBitmapSize(e.filter)

\* FilterFlush that does not clear dirty
FilterFlushKeepsDirty(e, d) ==
    IF ~e.dirty
    THEN [e |-> e, d |-> d]
    ELSE LET cfg == [e.config EXCEPT !.size = FilterLen(e),
                                     !.capacity = FilterCapacity(e),
                                     !.byte_size = FilterByteSize(e)]
         IN  [e |-> [e EXCEPT !.config = cfg],
              d |-> [d EXCEPT !.config = [present |-> TRUE, cfg |-> cfg],
                              !.files = IF e.filter # NoFilter THEN SBFFlush(e.filter, @) ELSE @]]

\* Filter.flush
\* FilterFlush writing the headers over emptied bit arrays
FilterFlushRewritesFiles(e, d) ==
    IF ~e.dirty
    THEN [e |-> e, d |-> d]
    ELSE LET cfg == [e.config EXCEPT !.size = FilterLen(e),
                                     !.capacity = FilterCapacity(e),
                                     !.byte_size = FilterByteSize(e)]
             files == IF e.filter # NoFilter THEN SBFFlush(e.filter, d.files) ELSE d.files
         IN  [e |-> [e EXCEPT !.config = cfg, !.dirty = FALSE],
              d |-> [d EXCEPT !.config = [present |-> TRUE, cfg |-> cfg],
                              !.files = [i \in 1..Len(files) |->
                                            [files[i] EXCEPT !.bits = {}]]]]

FilterFlush(e, d) ==
    IF ~e.dirty
    THEN [e |-> e, d |-> d]
    ELSE LET cfg == [e.config EXCEPT !.size = FilterLen(e),
                                     !.capacity = FilterCapacity(e),
                                     !.byte_size = FilterByteSize(e)]
         IN  [e |-> [e EXCEPT !.config = cfg, !.dirty = FALSE],
              d |-> [d EXCEPT !.config = [present |-> TRUE, cfg |-> cfg],
                              !.files = IF e.filter # NoFilter THEN SBFFlush(e.filter, @) ELSE @]]

\* FilterClose without the flush
FilterCloseNoFlush(e, d) ==
    IF e.filter # NoFilter
    THEN [e |-> [e EXCEPT !.filter = NoFilter],
          d |-> [d EXCEPT !.files = SBFFlush(e.filter, @)]]
    ELSE [e |-> e, d |-> d]

\* Filter.close: flush, then close the ScalingBloomFilter and drop it
FilterClose(e, d) ==
    LET f == FilterFlush(e, d)
    IN  IF f.e.filter # NoFilter
        THEN [e |-> [f.e EXCEPT !.filter = NoFilter],
              d |-> [f.d EXCEPT !.files = SBFFlush(f.e.filter, @)]]
        ELSE f

\* Filter.__contains__
\* Filter.__contains__ counting every check as a hit
FilterContainsCountsHit(e, d, key) ==
    LET res == SBFContains(e.filter, d.files, key)
    IN  [e |-> [e EXCEPT !.counters.check_hits = @ + 1], d |-> d, res |-> res]

FilterContains(e, d, key) ==
    LET res == SBFContains(e.filter, d.files, key)
    IN  [e |-> IF res THEN [e EXCEPT !.counters.check_hits = @ + 1]
                      ELSE [e EXCEPT !.counters.check_misses = @ + 1],
         d |-> d, res |-> res]

\* FilterAdd calling filter.add without check_first
FilterAddNoCheckFirst(e, d, key) ==
    LET a == SBFAdd(e.filter, d.files, key, FALSE)
        e1 == [e EXCEPT !.dirty = TRUE, !.filter = a.subs]
    IN  [e |-> IF a.res THEN [e1 EXCEPT !.counters.set_hits = @ + 1]
                        ELSE [e1 EXCEPT !.counters.set_misses = @ + 1],
         d |-> [d EXCEPT !.files = a.files], res |-> a.res]

\* Filter.add
\* Filter.add marking dirty on a hit only
FilterAddDirtyOnHit(e, d, key) ==
    LET a == SBFAdd(e.filter, d.files, key, TRUE)
        e1 == [e EXCEPT !.dirty = @ \/ a.res, !.filter = a.subs]
    IN  [e |-> IF a.res THEN [e1 EXCEPT !.counters.set_hits = @ + 1]
                        ELSE [e1 EXCEPT !.counters.set_misses = @ + 1],
         d |-> [d EXCEPT !.files = a.files], res |-> a.res]

FilterAdd(e, d, key) ==
    LET a == SBFAdd(e.filter, d.files, key, TRUE)
        e1 == [e EXCEPT !.dirty = TRUE, !.filter = a.subs]
    IN  [e |-> IF a.res THEN [e1 EXCEPT !.counters.set_hits = @ + 1]
                        ELSE [e1 EXCEPT !.counters.set_misses = @ + 1],
         d |-> [d EXCEPT !.files = a.files], res |-> a.res]

\* ProxyInit leaving the custom dict out
ProxyInitIgnoresCustom(config, path, custom) ==
    LET base == [config EXCEPT !.size = IF @ = Absent THEN 0 ELSE @,
                               !.capacity = IF @ = Absent THEN config.initial_capacity ELSE @,
                               !.byte_size = IF @ = Absent THEN 0 ELSE @]
    IN  [kind |-> "Proxy", path |-> path, config |-> base,
         counters |-> NewCounters, dirty |-> FALSE, filter |-> NoFilter]

\* ProxyFilter.__init__: config with size / capacity / byte_size defaulted,
\* then updated by the custom dict (the whole pickled config of the directory)
ProxyInit(config, path, custom) ==
    LET base == [config EXCEPT !.size = IF @ = Absent THEN 0 ELSE @,
                               !.capacity = IF @ = Absent THEN config.initial_capacity ELSE @,
                               !.byte_size = IF @ = Absent THEN 0 ELSE @]
    IN  [kind |-> "Proxy", path |-> path,
         config |-> IF custom.present THEN custom.cfg ELSE base,
         counters |-> NewCounters, dirty |-> FALSE, filter |-> NoFilter]

\* load_custom_settings: the unpickled config file, or None
LoadCustomSettings(d) == d.config

\* FaultAttr building the Filter with discover=False: a new chain in the
\* next file instead of the files of the directory
FaultAttrNoDiscover(p, d) ==
    LET c == FilterCreateFilter(p.config, <<>>, d)
    IN  [e |-> [kind |-> "Filter", path |-> p.path, config |-> p.config,
                counters |-> [p.counters EXCEPT !.page_ins = @ + 1],
                dirty |-> TRUE, filter |-> c.subs],
         d |-> c.d]

\* FaultAttr copying the counters without counting the page-in
FaultAttrKeepsPageIns(p, d) ==
    LET f == FilterInit(p.config, p.path, NoCustom, d)
    IN  [e |-> [f.e EXCEPT !.counters = p.counters], d |-> f.d]

\* ProxyFilter._fault_attr up to the dispatch: the real Filter that replaces
\* the proxy in the registry
FaultAttr(p, d) ==
    LET f == FilterInit(p.config, p.path, NoCustom, d)
    IN  [e |-> [f.e EXCEPT !.counters = [p.counters EXCEPT !.page_ins = @ + 1]],
         d |-> f.d]

\* ProxyFilter.__contains__ / Filter.__contains__ by the kind of the entry
EntryContains(e, d, key) ==
    IF e.kind = "Proxy"
    THEN LET f == FaultAttr(e, d) IN FilterContains(f.e, f.d, key)
    ELSE FilterContains(e, d, key)

\* ProxyFilter.add / Filter.add by the kind of the entry
EntryAdd(e, d, key) ==
    IF e.kind = "Proxy"
    THEN LET f == FaultAttr(e, d) IN FilterAdd(f.e, f.d, key)
    ELSE FilterAdd(e, d, key)

\* EntryFlush faulting a proxy in before the flush
EntryFlushFaultsIn(e, d) ==
    IF e.kind = "Proxy"
    THEN LET f == FaultAttr(e, d) IN FilterFlush(f.e, f.d)
    ELSE FilterFlush(e, d)

\* flush by kind: ProxyFilter.__getattribute__ answers flush with a no-op
EntryFlush(e, d) == IF e.kind = "Proxy" THEN [e |-> e, d |-> d] ELSE FilterFlush(e, d)

\* close by kind: ProxyFilter.__getattribute__ answers close with a no-op
EntryClose(e, d) == IF e.kind = "Proxy" THEN [e |-> e, d |-> d] ELSE FilterClose(e, d)

\* EntryDelete removing the .mmap files only
EntryDeleteKeepsConfig(e, d) ==
    LET c == EntryClose(e, d)
    IN  [e |-> c.e, d |-> [c.d EXCEPT !.files = <<>>]]

\* Filter.delete / ProxyFilter.delete: (close,) remove the .mmap files and
\* the config, then the directory
EntryDelete(e, d) ==
    LET c == EntryClose(e, d)
    IN  [e |-> c.e, d |-> NoDir]

\* len(), capacity(), byte_size() by kind: a proxy answers from its config
EntryLen(e) == IF e.kind = "Proxy" THEN e.config.size ELSE FilterLen(e)
EntryCapacity(e) == IF e.kind = "Proxy" THEN e.config.capacity ELSE FilterCapacity(e)
EntryByteSize(e) == IF e.kind = "Proxy" THEN e.config.byte_size ELSE FilterByteSize(e)

(***************************************************************************)
(* State.                                                                  *)
(***************************************************************************)
VARIABLES
    running,         \* the server process is up (a FilterManager exists)
    filters,         \* FilterManager.filters: name -> entry
    hot_filters,     \* FilterManager.hot_filters
    schedule_flush,  \* FilterManager._schedule_flush is a running LoopingCall
    schedule_cold,   \* FilterManager._schedule_cold is a running LoopingCall
    disk,            \* data_dir: path -> directory
    reply,           \* the reply to the last command
    inflight         \* the handler the reactor thread is inside, NoOp between handlers

vars == <<running, filters, hot_filters, schedule_flush, schedule_cold, disk, reply, inflight>>

\* self.filters[name] = e
Put(f, name, e) == [n \in DOMAIN f \cup {name} |-> IF n = name THEN e ELSE f[n]]

\* del self.filters[name]
Del(f, name) == [n \in DOMAIN f \ {name} |-> f[n]]

\* a reply is the sequence of tokens of its line; a map reply (info, list,
\* conf) is shown by its START / END framing and its content is InfoOf,
\* ListOf or the config of the entry in the state it was computed in
Reply(cmd, name, res) == [cmd |-> cmd, name |-> name, res |-> res]

MapReply == <<"START", "END">>

NotExist == <<"Filter does not exist">>

YesNo(b) == IF b THEN "Yes" ELSE "No"

\* the server starts over an empty data_dir; main() schedules both loops
\* the reactor thread is in no handler
NoOp == [cmd |-> "none"]

Init ==
    /\ running = TRUE
    /\ filters = << >>
    /\ hot_filters = {}
    /\ schedule_flush = TRUE
    /\ schedule_cold = TRUE
    /\ disk = [p \in Paths |-> NoDir]
    /\ reply = Reply("none", <<>>, <<>>)
    /\ inflight = NoOp

(***************************************************************************)
(* FilterManager operations.                                               *)
(***************************************************************************)
\* create_filter building the Filter with discover=False: a new chain in
\* the next file of the directory
create_filterNoDiscover(name, custom) ==
    LET path == PathOf(name)
        d0 == IF disk[path].exists THEN disk[path] ELSE EmptyDir
        cfg == UpdateCustom(ManagerConfig, custom)
        c == FilterCreateFilter(cfg, <<>>, d0)
    IN  /\ filters' = Put(filters, name,
                          [kind |-> "Filter", path |-> path, config |-> cfg,
                           counters |-> [NewCounters EXCEPT !.page_ins = @ + 1],
                           dirty |-> TRUE, filter |-> c.subs])
        /\ hot_filters' = hot_filters \cup {name}
        /\ disk' = [disk EXCEPT ![path] = c.d]

\* FilterManager.create_filter
create_filter(name, custom) ==
    LET path == PathOf(name)
        d0 == IF disk[path].exists THEN disk[path] ELSE EmptyDir
        f == FilterInit(ManagerConfig, path, custom, d0)
    IN  /\ filters' = Put(filters, name, f.e)
        /\ hot_filters' = hot_filters \cup {name}
        /\ disk' = [disk EXCEPT ![path] = f.d]

\* FilterManager.__delitem__ for a registered name
delitem(name) ==
    LET filt == filters[name]
        c == EntryClose(filt, disk[filt.path])
        r == EntryDelete(c.e, c.d)
    IN  /\ filters' = Del(filters, name)
        /\ disk' = [disk EXCEPT ![filt.path] = r.d]
        /\ UNCHANGED hot_filters

\* unmap deleting the files as __delitem__ does
unmapDeletes(name) ==
    LET filt == filters[name]
        c == EntryClose(filt, disk[filt.path])
    IN  /\ filters' = Del(filters, name)
        /\ disk' = [disk EXCEPT ![filt.path] = NoDir]
        /\ UNCHANGED hot_filters

\* FilterManager.unmap for a registered name
unmap(name) ==
    LET filt == filters[name]
        c == EntryClose(filt, disk[filt.path])
    IN  /\ filters' = Del(filters, name)
        /\ disk' = [disk EXCEPT ![filt.path] = c.d]
        /\ UNCHANGED hot_filters

\* drop_filter, unmap_filter: the manager calls of APIHandler.drop / close
drop_filter(name) == delitem(name)
unmap_filter(name) == unmap(name)

\* the per-key loop of check_keys / set_keys over the registered entry:
\* Op is EntryContains or EntryAdd
RECURSIVE KeyLoop(_, _, _, _)
KeyLoop(Op(_, _, _), e, d, keys) ==
    IF keys = <<>>
    THEN [e |-> e, d |-> d, res |-> <<>>]
    ELSE LET r == Op(e, d, Head(keys))
             rest == KeyLoop(Op, r.e, r.d, Tail(keys))
         IN  [e |-> rest.e, d |-> rest.d, res |-> <<r.res>> \o rest.res]

\* check_keys for a registered name: mark hot, per-key membership
check_keys(name, keys) ==
    LET filt == filters[name]
        r == KeyLoop(EntryContains, filt, disk[filt.path], keys)
    IN  [filters |-> Put(filters, name, r.e), hot |-> hot_filters \cup {name},
         disk |-> [disk EXCEPT ![filt.path] = r.d], res |-> r.res]

\* set_keys for a registered name: mark hot, per-key novelty
set_keys(name, keys) ==
    LET filt == filters[name]
        r == KeyLoop(EntryAdd, filt, disk[filt.path], keys)
    IN  [filters |-> Put(filters, name, r.e), hot |-> hot_filters \cup {name},
         disk |-> [disk EXCEPT ![filt.path] = r.d], res |-> r.res]

\* flush_filter for a registered name
flush_filter(f, dk, name) ==
    LET filt == f[name]
        r == EntryFlush(filt, dk[filt.path])
    IN  [filters |-> Put(f, name, r.e), disk |-> [dk EXCEPT ![filt.path] = r.d]]

\* flushing the given names one after the other
RECURSIVE FlushEach(_, _, _)
FlushEach(f, dk, names) ==
    IF names = {}
    THEN [filters |-> f, disk |-> dk]
    ELSE LET n == CHOOSE x \in names : TRUE
             r == flush_filter(f, dk, n)
         IN  FlushEach(r.filters, r.disk, names \ {n})

(***************************************************************************)
(* APIHandler commands.                                                    *)
(***************************************************************************)
\* what a command handler leaves alone: the process, the two LoopingCalls and,
\* as it runs from its first line to its return, the reactor's position
Sched == <<running, schedule_flush, schedule_cold, inflight>>

\* what the counters of the registered entries add up to
SumOver(S, F(_)) ==
    LET RECURSIVE Go(_)
        Go(T) == IF T = {} THEN 0
                 ELSE LET x == CHOOSE y \in T : TRUE IN F(x) + Go(T \ {x})
    IN Go(S)
TotalSets == SumOver(DOMAIN filters, LAMBDA n : CounterSets(filters[n].counters))
TotalChecks == SumOver(DOMAIN filters, LAMBDA n : CounterChecks(filters[n].counters))
TotalPageOuts == SumOver(DOMAIN filters, LAMBDA n : filters[n].counters.page_outs)

\* the commands and sweeps the bounds still admit
ChecksLeft(name, keys, max) == name \in DOMAIN filters => TotalChecks + Len(keys) <= max
SetsLeft(name, keys, max) == name \in DOMAIN filters => TotalSets + Len(keys) <= max

\* Create without the test for a registered name
CreateNoExistsCheck(name, custom) ==
    /\ running
    /\ create_filter(name, custom)
    /\ reply' = Reply("create", name, <<"Done">>)
    /\ UNCHANGED Sched

\* APIHandler.create with a valid name and parsed overrides
Create(name, custom) ==
    /\ running
    /\ IF ~ValidNamesMatch(name)
       THEN /\ reply' = Reply("create", name, <<"Client Error: Bad filter name">>)
            /\ UNCHANGED <<filters, hot_filters, disk>>
       ELSE IF name \in DOMAIN filters
       THEN /\ reply' = Reply("create", name, <<"Exists">>)
            /\ UNCHANGED <<filters, hot_filters, disk>>
       ELSE /\ create_filter(name, custom)
            /\ reply' = Reply("create", name, <<"Done">>)
    /\ UNCHANGED Sched

\* APIHandler.drop
Drop(name) ==
    /\ running
    /\ IF name \notin DOMAIN filters
       THEN /\ reply' = Reply("drop", name, NotExist)
            /\ UNCHANGED <<filters, hot_filters, disk>>
       ELSE /\ drop_filter(name)
            /\ reply' = Reply("drop", name, <<"Done">>)
    /\ UNCHANGED Sched

\* Close answering Done for every name
CloseAlwaysDone(name) ==
    /\ running
    /\ IF name \notin DOMAIN filters
       THEN /\ reply' = Reply("close", name, <<"Done">>)
            /\ UNCHANGED <<filters, hot_filters, disk>>
       ELSE /\ unmap_filter(name)
            /\ reply' = Reply("close", name, <<"Done">>)
    /\ UNCHANGED Sched

\* APIHandler.close
Close(name) ==
    /\ running
    /\ IF name \notin DOMAIN filters
       THEN /\ reply' = Reply("close", name, NotExist)
            /\ UNCHANGED <<filters, hot_filters, disk>>
       ELSE /\ unmap_filter(name)
            /\ reply' = Reply("close", name, <<"Done">>)
    /\ UNCHANGED Sched

\* the body shared by check / multi: cmd names the command, Fmt the reply
CheckCmd(cmd, name, keys, Fmt(_)) ==
    /\ running
    /\ IF name \notin DOMAIN filters
       THEN /\ reply' = Reply(cmd, name, NotExist)
            /\ UNCHANGED <<filters, hot_filters, disk>>
       ELSE /\ LET r == check_keys(name, keys)
               IN  /\ filters' = r.filters
                   /\ hot_filters' = r.hot
                   /\ disk' = r.disk
                   /\ reply' = Reply(cmd, name, Fmt(r.res))
    /\ UNCHANGED Sched

\* the body shared by set / bulk
SetCmd(cmd, name, keys, Fmt(_)) ==
    /\ running
    /\ IF name \notin DOMAIN filters
       THEN /\ reply' = Reply(cmd, name, NotExist)
            /\ UNCHANGED <<filters, hot_filters, disk>>
       ELSE /\ LET r == set_keys(name, keys)
               IN  /\ filters' = r.filters
                   /\ hot_filters' = r.hot
                   /\ disk' = r.disk
                   /\ reply' = Reply(cmd, name, Fmt(r.res))
    /\ UNCHANGED Sched

\* "Yes" if res[0] else "No"
FmtOne(res) == <<YesNo(res[1])>>

\* " ".join(["Yes" if r else "No" for r in results]): one token per key
FmtAll(res) == [i \in 1..Len(res) |-> YesNo(res[i])]

\* APIHandler.check
Check(name, key) == CheckCmd("check", name, <<key>>, FmtOne)

\* multi inserting its keys
MultiInserts(name, keys) == SetCmd("multi", name, keys, FmtAll)

\* APIHandler.multi
Multi(name, keys) == CheckCmd("multi", name, keys, FmtAll)

\* APIHandler.set
Set(name, key) == SetCmd("set", name, <<key>>, FmtOne)

\* APIHandler.bulk
Bulk(name, keys) == SetCmd("bulk", name, keys, FmtAll)

\* the map APIHandler.info builds for an entry
InfoOf(filt) ==
    [probability |-> filt.config.default_probability,
     storage |-> EntryByteSize(filt),
     capacity |-> EntryCapacity(filt),
     size |-> EntryLen(filt),
     counters |-> filt.counters]

\* info looking the name up through FilterManager.__getitem__
InfoMarksHot(name) ==
    /\ running
    /\ reply' = Reply("info", name, IF name \in DOMAIN filters THEN MapReply ELSE NotExist)
    /\ hot_filters' = hot_filters \cup {name}
    /\ UNCHANGED <<filters, disk>>
    /\ UNCHANGED Sched

\* APIHandler.info
Info(name) ==
    /\ running
    /\ reply' = Reply("info", name, IF name \in DOMAIN filters THEN MapReply ELSE NotExist)
    /\ UNCHANGED <<filters, hot_filters, disk>>
    /\ UNCHANGED Sched

\* the map APIHandler.list builds
ListOf ==
    [n \in DOMAIN filters |->
        <<filters[n].config.default_probability, EntryByteSize(filters[n]),
          EntryCapacity(filters[n]), EntryLen(filters[n])>>]

\* APIHandler.list
List ==
    /\ running
    /\ reply' = Reply("list", <<>>, MapReply)
    /\ UNCHANGED <<filters, hot_filters, disk>>
    /\ UNCHANGED Sched

\* APIHandler.flush with a name
Flush(name) ==
    /\ running
    /\ IF name \notin DOMAIN filters
       THEN /\ reply' = Reply("flush", name, NotExist)
            /\ UNCHANGED <<filters, disk>>
       ELSE /\ LET r == flush_filter(filters, disk, name)
               IN  filters' = r.filters /\ disk' = r.disk
            /\ reply' = Reply("flush", name, <<"Done">>)
    /\ UNCHANGED hot_filters
    /\ UNCHANGED Sched

\* APIHandler.flush without a name
FlushAll ==
    /\ running
    /\ LET r == FlushEach(filters, disk, DOMAIN filters)
       IN  filters' = r.filters /\ disk' = r.disk
    /\ reply' = Reply("flush", <<>>, <<"Done">>)
    /\ UNCHANGED hot_filters
    /\ UNCHANGED Sched

\* APIHandler.conf with a name
Conf(name) ==
    /\ running
    /\ reply' = Reply("conf", name, IF name \in DOMAIN filters THEN MapReply ELSE NotExist)
    /\ UNCHANGED <<filters, hot_filters, disk>>
    /\ UNCHANGED Sched

(***************************************************************************)
(* Scheduled calls, shutdown and start.                                    *)
(***************************************************************************)
\* FlushTick flushing one of the filters only
FlushTickOne ==
    /\ running /\ schedule_flush
    /\ LET r == FlushEach(filters, disk,
                          IF filters = << >> THEN {}
                          ELSE {CHOOSE n \in DOMAIN filters : TRUE})
       IN  filters' = r.filters /\ disk' = r.disk
    /\ UNCHANGED <<hot_filters, reply>>
    /\ UNCHANGED Sched

\* FilterManager._flush, run by the flush LoopingCall
FlushTick ==
    /\ running /\ schedule_flush
    /\ LET r == FlushEach(filters, disk, DOMAIN filters)
       IN  filters' = r.filters /\ disk' = r.disk
    /\ UNCHANGED <<hot_filters, reply>>
    /\ UNCHANGED Sched

\* ColdFilters without the hot set
ColdFiltersAll == {n \in DOMAIN filters : filters[n].kind = "Filter"}

\* the names a sweep pages out
ColdFilters == {n \in DOMAIN filters \ hot_filters : filters[n].kind = "Filter"}

PageOutsLeft(max) == TotalPageOuts + Cardinality(ColdFilters) <= max

\* UnmapOne building the proxy from the manager's config
UnmapOneManagerConfig(filt, d) ==
    LET c == FilterClose(filt, d)
        proxy == ProxyInit(ManagerConfig, c.e.path, NoConfig)
    IN  [e |-> [proxy EXCEPT !.counters = [c.e.counters EXCEPT !.page_outs = @ + 1]],
         d |-> c.d]

\* one iteration of the loop of _unmap_cold: close, then the proxy
\* UnmapOne giving the proxy counters of its own
UnmapOneFreshCounters(filt, d) ==
    LET c == FilterClose(filt, d)
        proxy == ProxyInit(c.e.config, c.e.path, NoConfig)
    IN  [e |-> [proxy EXCEPT !.counters.page_outs = @ + 1], d |-> c.d]

UnmapOne(filt, d) ==
    LET c == FilterClose(filt, d)
        proxy == ProxyInit(c.e.config, c.e.path, NoConfig)
    IN  [e |-> [proxy EXCEPT !.counters = [c.e.counters EXCEPT !.page_outs = @ + 1]],
         d |-> c.d]

\* FilterManager._unmap_cold, run by the cold LoopingCall
ColdTick ==
    /\ running /\ schedule_cold
    /\ filters' = [n \in DOMAIN filters |->
                      IF n \in ColdFilters THEN UnmapOne(filters[n], disk[filters[n].path]).e
                      ELSE filters[n]]
    /\ disk' = [p \in Paths |->
                   IF \E n \in ColdFilters : filters[n].path = p
                   THEN LET n == CHOOSE x \in ColdFilters : filters[x].path = p
                        IN  UnmapOne(filters[n], disk[p]).d
                   ELSE disk[p]]
    /\ hot_filters' = {}
    /\ UNCHANGED reply
    /\ UNCHANGED Sched

\* FilterManager.close, called by shutdown() when the reactor stops
\* FilterManager.close leaving the two LoopingCalls running
ShutdownLeavesTimers ==
    /\ running
    /\ running' = FALSE
    /\ filters' = << >>
    /\ disk' = [p \in Paths |->
                   IF \E n \in DOMAIN filters : filters[n].path = p /\ filters[n].kind = "Filter"
                   THEN LET n == CHOOSE x \in DOMAIN filters :
                                    filters[x].path = p /\ filters[x].kind = "Filter"
                        IN  EntryClose(filters[n], disk[p]).d
                   ELSE disk[p]]
    /\ UNCHANGED <<schedule_flush, schedule_cold, hot_filters, reply, inflight>>

Shutdown ==
    /\ running
    /\ running' = FALSE
    /\ filters' = << >>
    /\ disk' = [p \in Paths |->
                   IF \E n \in DOMAIN filters : filters[n].path = p /\ filters[n].kind = "Filter"
                   THEN LET n == CHOOSE x \in DOMAIN filters :
                                    filters[x].path = p /\ filters[x].kind = "Filter"
                        IN  EntryClose(filters[n], disk[p]).d
                   ELSE disk[p]]
    /\ schedule_flush' = FALSE
    /\ schedule_cold' = FALSE
    /\ UNCHANGED <<hot_filters, reply, inflight>>

\* FilterManager._discover_filters: a proxy per directory, under the name
\* left after replace(); when two directories give one name the one listed
\* last by os.listdir stays
\* a discovery that finds nothing
DiscoverFiltersNone(pick) == << >>

DiscoverFilters(pick) ==
    [n \in DOMAIN pick |-> ProxyInit(ManagerConfig, pick[n], LoadCustomSettings(disk[pick[n]]))]

\* main(): a new process builds the FilterManager and schedules the loops;
\* every config file found unpickles
Startup ==
    /\ ~running
    /\ running' = TRUE
    /\ LET found == {p \in Paths : disk[p].exists}
           names == {FilterNameOf(p) : p \in found}
       IN  /\ \A p \in found : disk[p].config # Unreadable
           /\ \E pick \in [names -> found] :
                  /\ \A n \in names : FilterNameOf(pick[n]) = n
                  /\ filters' = DiscoverFilters(pick)
    /\ hot_filters' = {}
    /\ schedule_flush' = TRUE
    /\ schedule_cold' = TRUE
    /\ UNCHANGED <<disk, reply, inflight>>

Next ==
    \/ \E n \in Names, c \in Customs : Create(n, c)
    \/ \E n \in Names : Drop(n)
    \/ \E n \in Names : Close(n)
    \/ \E n \in Names, k \in Keys : ChecksLeft(n, <<k>>, MaxChecks) /\ Check(n, k)
    \/ \E n \in Names, ks \in KeyLists : ChecksLeft(n, ks, MaxChecks) /\ Multi(n, ks)
    \/ \E n \in Names, k \in Keys : SetsLeft(n, <<k>>, MaxSets) /\ Set(n, k)
    \/ \E n \in Names, ks \in KeyLists : SetsLeft(n, ks, MaxSets) /\ Bulk(n, ks)
    \/ \E n \in Names : Info(n)
    \/ List
    \/ \E n \in Names : Flush(n)
    \/ FlushAll
    \/ \E n \in Names : Conf(n)
    \/ FlushTick
    \/ PageOutsLeft(MaxPageOuts) /\ ColdTick
    \/ Shutdown
    \/ Startup

Spec == Init /\ [][Next]_vars

\* two filters, one of them with the prefix inside its name, one key, the
\* single-key commands and list
Next2 ==
    \/ \E n \in Names2 : Create(n, NoCustom)
    \/ \E n \in Names2 : Drop(n)
    \/ \E n \in Names2 : Close(n)
    \/ \E n \in Names2, k \in Keys2 : ChecksLeft(n, <<k>>, MaxChecks2) /\ Check(n, k)
    \/ \E n \in Names2, k \in Keys2 : SetsLeft(n, <<k>>, MaxSets2) /\ Set(n, k)
    \/ List
    \/ \E n \in Names2 : Flush(n)
    \/ FlushAll
    \/ FlushTick
    \/ PageOutsLeft(MaxPageOuts2) /\ ColdTick
    \/ Shutdown
    \/ Startup

Spec2 == Init /\ [][Next2]_vars

(***************************************************************************)
(* I/O failures, bad arguments and a killed process.                       *)
(***************************************************************************)
\* config.sane_initial_capacity: below it EnvironmentError
MinCapacity == 1000
\* config.sane_probability in units of 1E-4: 1.0, at and above it
\* EnvironmentError
MaxProbability == 10000

\* the second argument of create, split at blanks: a missing token, a token
\* int() / float() rejects, or the number it parses to (probabilities in
\* units of 1E-4)
NoArg == [given |-> FALSE, num |-> FALSE, v |-> 0]
BadToken == [given |-> TRUE, num |-> FALSE, v |-> 0]
Num(v) == [given |-> TRUE, num |-> TRUE, v |-> v]
CapArgs == {NoArg, BadToken, Num(MinCapacity - 1), Num(MinCapacity)}
ProbArgs == {NoArg, BadToken, Num(0), Num(CustomProb), Num(MaxProbability)}

\* int(args[0]) and config.sane_initial_capacity: ValueError or
\* EnvironmentError; a Warning passes
BadCapacity(a) == a.given /\ (~a.num \/ a.v < MinCapacity)

\* float(args[1]) and config.sane_probability
BadProbability(a) == a.given /\ (~a.num \/ a.v >= MaxProbability \/ a.v <= 0)

\* the custom dict create builds from the tokens
CustomOf(cap, prob) ==
    [initial_capacity |-> IF cap.given THEN cap.v ELSE Absent,
     default_probability |-> IF prob.given THEN prob.v ELSE Absent]

\* CreateArgs validating the arguments before the test for a registered name
CreateArgsValidatesFirst(name, cap, prob) ==
    /\ running
    /\ ~cap.given => ~prob.given
    /\ IF BadCapacity(cap)
       THEN /\ reply' = Reply("create", name, <<"Client Error: Bad initial capacity!">>)
            /\ UNCHANGED <<filters, hot_filters, disk>>
       ELSE IF BadProbability(prob)
       THEN /\ reply' = Reply("create", name,
                              <<"Client Error: Bad false positive probability!">>)
            /\ UNCHANGED <<filters, hot_filters, disk>>
       ELSE IF name \in DOMAIN filters
       THEN /\ reply' = Reply("create", name, <<"Exists">>)
            /\ UNCHANGED <<filters, hot_filters, disk>>
       ELSE /\ create_filter(name, CustomOf(cap, prob))
            /\ reply' = Reply("create", name, <<"Done">>)
    /\ UNCHANGED Sched

\* APIHandler.create with the argument string as the client sent it
CreateArgs(name, cap, prob) ==
    /\ running
    /\ ~cap.given => ~prob.given
    /\ IF ~ValidNamesMatch(name)
       THEN /\ reply' = Reply("create", name, <<"Client Error: Bad filter name">>)
            /\ UNCHANGED <<filters, hot_filters, disk>>
       ELSE IF name \in DOMAIN filters
       THEN /\ reply' = Reply("create", name, <<"Exists">>)
            /\ UNCHANGED <<filters, hot_filters, disk>>
       ELSE IF BadCapacity(cap)
       THEN /\ reply' = Reply("create", name, <<"Client Error: Bad initial capacity!">>)
            /\ UNCHANGED <<filters, hot_filters, disk>>
       ELSE IF BadProbability(prob)
       THEN /\ reply' = Reply("create", name,
                              <<"Client Error: Bad false positive probability!">>)
            /\ UNCHANGED <<filters, hot_filters, disk>>
       ELSE /\ create_filter(name, CustomOf(cap, prob))
            /\ reply' = Reply("create", name, <<"Done">>)
    /\ UNCHANGED Sched

\* FaultAttrFails counting the page-in before the files are opened
FaultAttrFailsCounted(p, d) == [e |-> [p EXCEPT !.counters.page_ins = @ + 1], d |-> d]

\* ProxyFilter._fault_attr when Filter(..., discover=True) raises (listdir,
\* getsize or the mmap of a file fails): nothing after it runs
FaultAttrFails(p, d) == [e |-> p, d |-> d]

\* check / multi / set / bulk on a proxy whose fault-in raises: the
\* exception is no KeyError, lineReceived answers Internal Error
FaultInFails(cmd, name) ==
    /\ running
    /\ name \in DOMAIN filters
    /\ filters[name].kind = "Proxy"
    /\ LET r == FaultAttrFails(filters[name], disk[filters[name].path])
       IN  /\ filters' = Put(filters, name, r.e)
           /\ disk' = [disk EXCEPT ![filters[name].path] = r.d]
    /\ hot_filters' = hot_filters \cup {name}
    /\ reply' = Reply(cmd, name, <<"Internal Error">>)
    /\ UNCHANGED Sched

\* where Filter.flush raises: opening the config for writing, writing it
\* (the file is already truncated), or filter.flush()
FlushFailures == {"open", "write", "sync"}

\* Filter.flush of a dirty filter raising at the given point: the config
\* dict is refreshed, dirty stays set
FilterFlushFails(e, d, at) ==
    LET cfg == [e.config EXCEPT !.size = FilterLen(e),
                                !.capacity = FilterCapacity(e),
                                !.byte_size = FilterByteSize(e)]
    IN  [e |-> [e EXCEPT !.config = cfg],
         d |-> CASE at = "open" -> d
                 [] at = "write" -> [d EXCEPT !.config = Unreadable]
                 [] OTHER -> [d EXCEPT !.config = [present |-> TRUE, cfg |-> cfg]]]

\* FilterManager._flush when the flush of filter name raises: the filters
\* the loop reached before it are flushed, the exception leaves the loop,
\* and the LoopingCall, whose call raised, stops
FlushTickFails(name, before, at) ==
    /\ running /\ schedule_flush
    /\ name \in DOMAIN filters
    /\ filters[name].kind = "Filter" /\ filters[name].dirty
    /\ before \subseteq DOMAIN filters \ {name}
    /\ LET r == FlushEach(filters, disk, before)
           f == FilterFlushFails(r.filters[name], r.disk[filters[name].path], at)
       IN  /\ filters' = Put(r.filters, name, f.e)
           /\ disk' = [r.disk EXCEPT ![filters[name].path] = f.d]
    /\ schedule_flush' = FALSE
    /\ UNCHANGED <<running, schedule_cold, hot_filters, reply, inflight>>

\* the process is killed: no FilterManager.close(), the files stay as they
\* are, the counts of the headers unwritten
Crash ==
    /\ running
    /\ running' = FALSE
    /\ filters' = << >>
    /\ schedule_flush' = FALSE
    /\ schedule_cold' = FALSE
    /\ UNCHANGED <<hot_filters, disk, reply, inflight>>

\* main() when load_custom_settings raises on a config file: the exception
\* leaves _discover_filters and FilterManager.__init__, the process ends
\* with a traceback
StartupFails ==
    /\ ~running
    /\ \E p \in Paths : disk[p].exists /\ disk[p].config = Unreadable
    /\ reply' = Reply("start", <<>>, <<"Traceback">>)
    /\ UNCHANGED <<running, filters, hot_filters, schedule_flush, schedule_cold, disk, inflight>>

\* two filters, one key, set and the ticks with their failures
NextF ==
    \/ \E n \in NamesF : Create(n, NoCustom)
    \/ \E n \in NamesF, k \in Keys2 : SetsLeft(n, <<k>>, MaxSetsF) /\ Set(n, k)
    \/ \E n \in NamesF, cmd \in {"check", "set"} : FaultInFails(cmd, n)
    \/ FlushTick
    \/ \E n \in NamesF, before \in SUBSET NamesF, at \in FlushFailures :
           FlushTickFails(n, before, at)
    \/ PageOutsLeft(MaxPageOutsF) /\ ColdTick
    \/ Shutdown
    \/ Crash
    \/ Startup
    \/ StartupFails

SpecFaults == Init /\ [][NextF]_vars

\* two filters, one key, create with its argument string
NextA ==
    \/ \E n \in NamesF, cap \in CapArgs, prob \in ProbArgs : CreateArgs(n, cap, prob)
    \/ \E n \in NamesF, k \in Keys2 : SetsLeft(n, <<k>>, MaxSetsF) /\ Set(n, k)
    \/ \E n \in NamesF : Drop(n)

SpecArgs == Init /\ [][NextA]_vars

(***************************************************************************)
(* Request lines: the command token lineReceived looks up on APIHandler,   *)
(* the one-letter aliases, names with a character outside the class.       *)
(***************************************************************************)
\* the documented commands
Commands ==
    {"create", "drop", "close", "check", "c", "multi", "m", "set", "s", "bulk", "b",
     "info", "list", "flush", "conf"}

\* the names hasattr(APIHandler, cmd) is true for: the command methods and
\* what else the class carries, as the MANAGER attribute and __doc__
APIHandlerAttrs == Commands \cup {"MANAGER", "__doc__"}

\* first tokens that are no command: two attributes of the class, an
\* unknown word, the empty line
OtherTokens == {"MANAGER", "__doc__", "delete", ""}

\* lineReceived for a first token that is no command: without the attribute
\* the Client Error; with it impl(*args) calls an object that is not
\* callable, and the bare except answers Internal Error
OtherLine(cmd) ==
    /\ running
    /\ cmd \notin Commands
    /\ reply' = Reply(cmd, <<>>,
                      IF cmd \in APIHandlerAttrs
                      THEN <<"Internal Error">>
                      ELSE <<"Client Error: Command not supported">>)
    /\ UNCHANGED <<filters, hot_filters, disk>>
    /\ UNCHANGED Sched

\* APIHandler.c: cls.check(*args)
AliasC(name, key) == CheckCmd("c", name, <<key>>, FmtOne)

\* APIHandler.m: cls.bulk(*args)
AliasM(name, keys) == SetCmd("m", name, keys, FmtAll)

\* APIHandler.s: cls.set(*args)
AliasS(name, key) == SetCmd("s", name, <<key>>, FmtOne)

\* APIHandler.b: cls.bulk(*args)
AliasB(name, keys) == SetCmd("b", name, keys, FmtAll)

\* three names, two of them with a character outside the class; the key
\* commands under their names and their aliases; lines that are no command
NextL ==
    \/ \E n \in NamesL : Create(n, NoCustom)
    \/ \E n \in NamesL, k \in Keys : ChecksLeft(n, <<k>>, MaxChecksL) /\ Check(n, k)
    \/ \E n \in NamesL, ks \in KeyLists : ChecksLeft(n, ks, MaxChecksL) /\ Multi(n, ks)
    \/ \E n \in NamesL, k \in Keys : SetsLeft(n, <<k>>, MaxSetsL) /\ Set(n, k)
    \/ \E n \in NamesL, ks \in KeyLists : SetsLeft(n, ks, MaxSetsL) /\ Bulk(n, ks)
    \/ \E n \in NamesL, k \in Keys : ChecksLeft(n, <<k>>, MaxChecksL) /\ AliasC(n, k)
    \/ \E n \in NamesL, ks \in KeyLists :
           ChecksLeft(n, ks, MaxChecksL) /\ SetsLeft(n, ks, MaxSetsL) /\ AliasM(n, ks)
    \/ \E n \in NamesL, k \in Keys : SetsLeft(n, <<k>>, MaxSetsL) /\ AliasS(n, k)
    \/ \E n \in NamesL, ks \in KeyLists : SetsLeft(n, ks, MaxSetsL) /\ AliasB(n, ks)
    \/ \E cmd \in OtherTokens : OtherLine(cmd)

SpecLines == Init /\ [][NextL]_vars

(***************************************************************************)
(* A name with the prefix inside it next to the name its directory is      *)
(* discovered under.                                                       *)
(***************************************************************************)
\* the two names, one key, create / check / multi / set, shutdown and start
NextAl ==
    \/ \E n \in NamesA : Create(n, NoCustom)
    \/ \E n \in NamesA, k \in Keys2 : ChecksLeft(n, <<k>>, MaxChecksA) /\ Check(n, k)
    \/ \E n \in NamesA, ks \in KeyListsOf(Keys2) : ChecksLeft(n, ks, MaxChecksA) /\ Multi(n, ks)
    \/ \E n \in NamesA, k \in Keys2 : SetsLeft(n, <<k>>, MaxSetsA) /\ Set(n, k)
    \/ Shutdown
    \/ Startup

SpecAlias == Init /\ [][NextAl]_vars

(***************************************************************************)
(* A drop whose file deletion fails.                                       *)
(***************************************************************************)
\* checks / page-outs under SpecDelete
MaxChecksD == 2
MaxPageOutsD == 2

\* where Filter.delete / ProxyFilter.delete raises: at the first os.remove,
\* or at os.rmdir after the .mmap files and the config are removed (the
\* directory holds another file)
DeleteFailures == {"remove", "rmdir"}

\* Filter.delete / ProxyFilter.delete raising at the given point
EntryDeleteFails(e, d, at) ==
    LET c == EntryClose(e, d)
    IN  [e |-> c.e, d |-> IF at = "remove" THEN c.d ELSE EmptyDir]

\* FilterManager.__delitem__ when filt.delete() raises: the statement after
\* it, del self.filters[key], does not run
delitemFails(name, at) ==
    LET filt == filters[name]
        c == EntryClose(filt, disk[filt.path])
        r == EntryDeleteFails(c.e, c.d, at)
    IN  /\ filters' = Put(filters, name, r.e)
        /\ disk' = [disk EXCEPT ![filt.path] = r.d]
        /\ UNCHANGED hot_filters

\* APIHandler.drop of a registered name when the deletion raises: OSError is
\* no KeyError, lineReceived answers Internal Error
DropFails(name, at) ==
    /\ running
    /\ name \in DOMAIN filters
    /\ delitemFails(name, at)
    /\ reply' = Reply("drop", name, <<"Internal Error">>)
    /\ UNCHANGED Sched

\* a Filter after Filter.close: self.filter is None
ClosedFilter(e) == e.kind = "Filter" /\ e.filter = NoFilter

\* APIHandler.check: on a registered Filter whose filter is None,
\* 'key in self.filter' raises TypeError and lineReceived answers Internal
\* Error
CheckClosed(name, key) ==
    IF name \in DOMAIN filters /\ ClosedFilter(filters[name])
    THEN /\ running
         /\ hot_filters' = hot_filters \cup {name}
         /\ reply' = Reply("check", name, <<"Internal Error">>)
         /\ UNCHANGED <<filters, disk>>
         /\ UNCHANGED Sched
    ELSE Check(name, key)

\* one filter, create / check / drop with and without a failing deletion,
\* the ticks, shutdown and start
NextD ==
    \/ \E n \in Names, c \in Customs : Create(n, c)
    \/ \E n \in Names, k \in Keys : ChecksLeft(n, <<k>>, MaxChecksD) /\ CheckClosed(n, k)
    \/ \E n \in Names : Drop(n)
    \/ \E n \in Names, at \in DeleteFailures : DropFails(n, at)
    \/ FlushTick
    \/ PageOutsLeft(MaxPageOutsD) /\ ColdTick
    \/ Shutdown
    \/ Startup

SpecDelete == Init /\ [][NextD]_vars

(***************************************************************************)
(* The reactor thread inside a handler: check / multi / set / bulk one key *)
(* at a time, flush in two steps, every other handler and both scheduled   *)
(* calls served between handlers.                                          *)
(***************************************************************************)
MaxSetsS == 2
MaxChecksS == 2
MaxPageOutsS == 1

KeyCmds == {"check", "multi", "set", "bulk"}

\* the entry and directory a handler started on, kept to compare its reply
Started(name) == [e |-> filters[name], d |-> disk[filters[name].path]]

\* lineReceived is called for the next line only after impl(*args) of the
\* line before has returned
ReactorIdleAlways == TRUE

ReactorIdle == inflight = NoOp

\* a LoopingCall is run by the reactor between two handlers
LoopingCallDueAnytime == TRUE

LoopingCallDue == inflight = NoOp

\* APIHandler.check / multi / set / bulk up to the key loop: the name is
\* looked up and marked hot
BeginKeys(cmd, name, keys) ==
    /\ running
    /\ IF name \notin DOMAIN filters
       THEN /\ reply' = Reply(cmd, name, NotExist)
            /\ UNCHANGED <<hot_filters, inflight>>
       ELSE /\ hot_filters' = hot_filters \cup {name}
            /\ inflight' = [cmd |-> cmd, name |-> name, keys |-> keys, res |-> <<>>,
                            all |-> keys, start |-> Started(name)]
            /\ UNCHANGED reply
    /\ UNCHANGED <<running, filters, schedule_flush, schedule_cold, disk>>

\* one turn of the key loop; on an entry that was closed under the loop the
\* access raises and lineReceived answers Internal Error
StepKey ==
    /\ inflight.cmd \in KeyCmds
    /\ inflight.keys # <<>>
    /\ IF inflight.name \notin DOMAIN filters
       THEN /\ reply' = Reply(inflight.cmd, inflight.name, <<"Internal Error">>)
            /\ inflight' = NoOp
            /\ UNCHANGED <<filters, hot_filters, disk>>
       ELSE /\ LET r == IF inflight.cmd \in {"set", "bulk"}
                        THEN set_keys(inflight.name, <<Head(inflight.keys)>>)
                        ELSE check_keys(inflight.name, <<Head(inflight.keys)>>)
               IN  /\ filters' = r.filters
                   /\ hot_filters' = r.hot
                   /\ disk' = r.disk
                   /\ inflight' = [inflight EXCEPT !.keys = Tail(@), !.res = @ \o r.res]
            /\ UNCHANGED reply
    /\ UNCHANGED <<running, schedule_flush, schedule_cold>>

\* the handler returns its results and lineReceived sends them
EndKeys ==
    /\ inflight.cmd \in KeyCmds
    /\ inflight.keys = <<>>
    /\ reply' = Reply(inflight.cmd, inflight.name,
                      IF inflight.cmd \in {"check", "set"}
                      THEN FmtOne(inflight.res) ELSE FmtAll(inflight.res))
    /\ inflight' = NoOp
    /\ UNCHANGED <<running, filters, hot_filters, schedule_flush, schedule_cold, disk>>

\* APIHandler.flush with a name, up to the call of flush_filter
BeginFlush(name) ==
    /\ running
    /\ IF name \notin DOMAIN filters
       THEN /\ reply' = Reply("flush", name, NotExist)
            /\ UNCHANGED inflight
       ELSE /\ inflight' = [cmd |-> "flush", name |-> name, keys |-> <<>>, res |-> <<>>,
                            all |-> <<>>, start |-> Started(name)]
            /\ UNCHANGED reply
    /\ UNCHANGED <<running, filters, hot_filters, schedule_flush, schedule_cold, disk>>

\* flush_filter and the reply of APIHandler.flush
EndFlush ==
    /\ inflight.cmd = "flush"
    /\ IF inflight.name \notin DOMAIN filters
       THEN /\ reply' = Reply("flush", inflight.name, <<"Internal Error">>)
            /\ UNCHANGED <<filters, disk>>
       ELSE /\ LET r == flush_filter(filters, disk, inflight.name)
               IN  filters' = r.filters /\ disk' = r.disk
            /\ reply' = Reply("flush", inflight.name, <<"Done">>)
    /\ inflight' = NoOp
    /\ UNCHANGED <<running, hot_filters, schedule_flush, schedule_cold>>

\* one filter, three keys: the handlers step by step
NextS ==
    \/ \E n \in Names : ReactorIdle /\ Create(n, NoCustom)
    \/ \E n \in Names : ReactorIdle /\ Drop(n)
    \/ \E n \in Names : ReactorIdle /\ Close(n)
    \/ \E n \in Names, k \in Keys :
           ReactorIdle /\ ChecksLeft(n, <<k>>, MaxChecksS) /\ BeginKeys("check", n, <<k>>)
    \/ \E n \in Names, ks \in KeyLists :
           ReactorIdle /\ ChecksLeft(n, ks, MaxChecksS) /\ BeginKeys("multi", n, ks)
    \/ \E n \in Names, k \in Keys :
           ReactorIdle /\ SetsLeft(n, <<k>>, MaxSetsS) /\ BeginKeys("set", n, <<k>>)
    \/ \E n \in Names, ks \in KeyLists :
           ReactorIdle /\ SetsLeft(n, ks, MaxSetsS) /\ BeginKeys("bulk", n, ks)
    \/ \E n \in Names : ReactorIdle /\ BeginFlush(n)
    \/ StepKey
    \/ EndKeys
    \/ EndFlush
    \/ LoopingCallDue /\ FlushTick
    \/ LoopingCallDue /\ PageOutsLeft(MaxPageOutsS) /\ ColdTick

SpecSteps == Init /\ [][NextS]_vars

(***************************************************************************)
(* Properties.                                                             *)
(***************************************************************************)
\* what a check of key k on the registered name n answers in the registry f
\* over the disk dk
Tests(f, dk, n, k) == EntryContains(f[n], dk[f[n].path], k).res

\* the bit arrays of the files of a directory
BitsOf(d) == [i \in 1..Len(d.files) |-> d.files[i].bits]

\* the step is the given command: the command's action, told first by the
\* reply it leaves
DidCreate(n, c) == reply'.cmd = "create" /\ reply'.name = n /\ Create(n, c)
DidDrop(n) == reply'.cmd = "drop" /\ reply'.name = n /\ Drop(n)
DidClose(n) == reply'.cmd = "close" /\ reply'.name = n /\ Close(n)
DidCheck(n, k) == reply'.cmd = "check" /\ reply'.name = n /\ Check(n, k)
DidMulti(n, ks) == reply'.cmd = "multi" /\ reply'.name = n /\ Multi(n, ks)
DidSet(n, k) == reply'.cmd = "set" /\ reply'.name = n /\ Set(n, k)
DidBulk(n, ks) == reply'.cmd = "bulk" /\ reply'.name = n /\ Bulk(n, ks)
DidInfo(n) == reply'.cmd = "info" /\ reply'.name = n /\ Info(n)
DidFlush(n) == reply'.cmd = "flush" /\ reply'.name = n /\ Flush(n)
DidList == reply'.cmd = "list" /\ List
DidConf(n) == reply'.cmd = "conf" /\ reply'.name = n /\ Conf(n)
DidFlushTick == reply' = reply /\ hot_filters' = hot_filters /\ FlushTick
DidFlushAll == reply'.cmd = "flush" /\ reply'.name = <<>> /\ FlushAll
DidColdTick == hot_filters' = {} /\ reply' = reply /\ ColdTick
DidShutdown == running /\ ~running' /\ Shutdown
DidStartup == ~running /\ running' /\ Startup

DidCreateArgs(n, cap, prob) ==
    reply'.cmd = "create" /\ reply'.name = n /\ CreateArgs(n, cap, prob)
DidFaultInFail(cmd, n) == reply'.cmd = cmd /\ reply'.name = n /\ FaultInFails(cmd, n)
DidFlushTickFail(n, before, at) ==
    schedule_flush /\ ~schedule_flush' /\ running' /\ FlushTickFails(n, before, at)
DidReplyKeys(cmd, n) ==
    /\ reply'.cmd = cmd /\ reply'.name = n /\ inflight' = NoOp
    /\ \/ \E ks \in KeyLists : BeginKeys(cmd, n, ks)
       \/ StepKey
       \/ EndKeys
DidOtherLine(cmd) == reply'.cmd = cmd /\ OtherLine(cmd)
DidAliasC(n, k) == reply'.cmd = "c" /\ reply'.name = n /\ AliasC(n, k)
DidAliasM(n, ks) == reply'.cmd = "m" /\ reply'.name = n /\ AliasM(n, ks)
DidAliasS(n, k) == reply'.cmd = "s" /\ reply'.name = n /\ AliasS(n, k)
DidAliasB(n, ks) == reply'.cmd = "b" /\ reply'.name = n /\ AliasB(n, ks)
DidStartupFail == ~running /\ reply'.cmd = "start" /\ StartupFails

\* what a check of key k answers on the chain rebuilt from a directory
DiskTests(d, k) == SBFContains(FilterDiscover(d), d.files, k)

\* C1: no false negatives across the lifecycle.  For every registered filter
\* n and key k: a set or bulk of k leaves k testing present; a key that tests
\* present keeps testing present over every step that leaves n registered
\* (other sets, scaling, flushes, page-outs, fault-ins); and a check or multi
\* of a key that tests present replies Yes for it.
C1_NoFalseNegatives ==
    [][\A n \in AllNames, k \in Keys :
          n \in DOMAIN filters =>
            /\ DidSet(n, k) => Tests(filters', disk', n, k)
            /\ \A ks \in KeyLists :
                   (DidBulk(n, ks) /\ \E i \in 1..Len(ks) : ks[i] = k)
                       => Tests(filters', disk', n, k)
            /\ (n \in DOMAIN filters' /\ Tests(filters, disk, n, k))
                   => Tests(filters', disk', n, k)
            /\ Tests(filters, disk, n, k) =>
                   /\ DidCheck(n, k) => reply'.res = <<"Yes">>
                   /\ \A ks \in KeyLists : DidMulti(n, ks) =>
                          \A i \in 1..Len(ks) : ks[i] = k => reply'.res[i] = "Yes"]_vars

\* C1 witness: a key was set, its filter was paged out, and the check that
\* faulted it in again answered Yes
C1_Witness ==
    \E n \in DOMAIN filters :
        /\ filters[n].kind = "Filter"
        /\ filters[n].counters.page_outs >= 1
        /\ filters[n].counters.set_hits >= 1
        /\ filters[n].counters.check_hits >= 1
        /\ Len(filters[n].filter) >= 2
        /\ reply.cmd = "check" /\ reply.name = n /\ reply.res = <<"Yes">>

\* C2: novelty signal.  A set of a key that tests absent replies Yes and
\* leaves the key testing present; a set of a key that tests present replies
\* No and changes neither the size of the filter nor a bit of a sub-filter.
C2_Novelty ==
    [][\A n \in AllNames, k \in Keys :
          (n \in DOMAIN filters /\ DidSet(n, k)) =>
            LET e == filters[n]
                d == disk[e.path]
                d1 == disk'[e.path]
            IN  /\ Tests(filters', disk', n, k)
                /\ ~Tests(filters, disk, n, k) => reply'.res = <<"Yes">>
                /\ Tests(filters, disk, n, k) =>
                       /\ reply'.res = <<"No">>
                       /\ EntryLen(filters'[n]) = EntryLen(e)
                       /\ \A i \in 1..Len(d1.files) :
                              d1.files[i].bits = IF i <= Len(d.files) THEN d.files[i].bits ELSE {}]_vars

\* C2 witness: a second set of a key has answered No on a filter holding it
C2_Witness ==
    \E n \in DOMAIN filters :
        /\ filters[n].kind = "Filter"
        /\ filters[n].counters.set_hits >= 1
        /\ filters[n].counters.set_misses >= 1
        /\ FilterLen(filters[n]) = filters[n].counters.set_hits
        /\ reply.cmd = "set" /\ reply.name = n /\ reply.res = <<"No">>

\* C3: durability round trip.  A shutdown leaves every registered filter in
\* its directory with a config recording its len and with every key that
\* tested present; a start over the same data_dir registers the name of every
\* filter directory, with that len and with those keys testing present.
C3_RoundTrip ==
    [][/\ DidShutdown =>
             \A n \in DOMAIN filters :
                 LET d1 == disk'[filters[n].path]
                 IN  /\ d1.exists /\ d1.config.present
                     /\ d1.config.cfg.size = EntryLen(filters[n])
                     /\ \A k \in Keys : Tests(filters, disk, n, k) => DiskTests(d1, k)
       /\ DidStartup =>
             \A n \in AllNames :
                 disk[PathOf(n)].exists =>
                     /\ n \in DOMAIN filters'
                     /\ filters'[n].path = PathOf(n)
                     /\ disk[PathOf(n)].config.present =>
                            EntryLen(filters'[n]) = disk[PathOf(n)].config.cfg.size
                     /\ \A k \in Keys :
                            DiskTests(disk[PathOf(n)], k) => Tests(filters', disk', n, k)]_vars

\* C4: paging transparency of metadata.  A proxy made by a cold sweep
\* reports the len, capacity and byte_size its filter reported just before.
C4_PagingMetadata ==
    [][DidColdTick =>
          \A n \in ColdFilters :
              /\ filters'[n].kind = "Proxy"
              /\ EntryLen(filters'[n]) = FilterLen(filters[n])
              /\ EntryCapacity(filters'[n]) = FilterCapacity(filters[n])
              /\ EntryByteSize(filters'[n]) = FilterByteSize(filters[n])]_vars

\* C4 witness: a filter whose last command was a set answering Yes has been
\* paged out and reports its keys
C4_Witness ==
    \E n \in DOMAIN filters :
        /\ filters[n].kind = "Proxy"
        /\ filters[n].counters.page_outs = 1
        /\ filters[n].counters.set_hits >= 2
        /\ EntryLen(filters[n]) = filters[n].counters.set_hits
        /\ EntryCapacity(filters[n]) > filters[n].config.initial_capacity
        /\ reply.cmd = "set" /\ reply.name = n /\ reply.res = <<"Yes">>

\* two outcomes of an operation agree: the answer, the chain, the len, the
\* bits of the files and the membership of every key
SameOutcome(x, y) ==
    /\ x.res = y.res
    /\ x.e.kind = "Filter" /\ y.e.kind = "Filter"
    /\ x.e.filter = y.e.filter
    /\ FilterLen(x.e) = FilterLen(y.e)
    /\ BitsOf(x.d) = BitsOf(y.d)
    /\ \A k \in Keys : FilterContains(x.e, x.d, k).res = FilterContains(y.e, y.d, k).res

\* C5: fault-in equivalence.  A check or set on a proxy leaves a real filter
\* under the name, with one more page-in and the proxy's counters; a proxy
\* made by a sweep answers contains(k) and add(k) as the filter it replaced
\* would have, with the same chain, len and bits after; and a proxy and its
\* directory stay as they are until the fault-in.
C5_FaultInEquivalence ==
    [][\A n \in DOMAIN filters :
          LET e == filters[n]
              d == disk[e.path]
          IN  /\ (e.kind = "Proxy" /\ \E k \in Keys : DidCheck(n, k) \/ DidSet(n, k)) =>
                     /\ filters'[n].kind = "Filter"
                     /\ Len(filters'[n].filter) >= Len(d.files)
                     /\ \A i \in 1..Len(filters'[n].filter) :
                            /\ filters'[n].filter[i].file = i
                            /\ i <= Len(d.files) => filters'[n].filter[i].cap = d.files[i].cap
                     /\ filters'[n].counters.page_ins = e.counters.page_ins + 1
                     /\ filters'[n].counters.page_outs = e.counters.page_outs
              /\ (DidColdTick /\ n \in ColdFilters) =>
                     \A k \in Keys :
                         /\ SameOutcome(EntryContains(filters'[n], disk'[e.path], k),
                                        FilterContains(e, d, k))
                         /\ SameOutcome(EntryAdd(filters'[n], disk'[e.path], k),
                                        FilterAdd(e, d, k))
              /\ (e.kind = "Proxy" /\ n \in DOMAIN filters' /\ filters'[n].kind = "Proxy") =>
                     /\ filters'[n] = e
                     /\ disk'[e.path] = d]_vars

\* C5 witness: a set on a paged-out filter of two sub-filters has faulted it
\* in and answered
C5_Witness ==
    \E n \in DOMAIN filters :
        /\ filters[n].kind = "Filter"
        /\ filters[n].counters.page_outs >= 1
        /\ filters[n].counters.page_ins >= 2
        /\ Len(filters[n].filter) >= 2
        /\ filters[n].counters.set_misses >= 1
        /\ reply.cmd = "set" /\ reply.name = n /\ reply.res = <<"No">>

\* the commands of a step that access name n: a create that registers it, a
\* check, multi, set or bulk while it is registered
Accessed(n) ==
    \/ n \notin DOMAIN filters /\ \E c \in Customs : DidCreate(n, c)
    \/ /\ n \in DOMAIN filters
       /\ \/ \E k \in Keys : DidCheck(n, k) \/ DidSet(n, k)
          \/ \E ks \in KeyLists : DidMulti(n, ks) \/ DidBulk(n, ks)

\* C6: the cold sweep.  The hot set holds the names accessed since the last
\* sweep; a sweep turns each real filter outside the hot set into a proxy
\* with one more page-out, leaves every hot entry and every proxy as it
\* is, keeps the registered names and ends with an empty hot set.
C6_ColdSweep ==
    [][/\ DidColdTick =>
             /\ DOMAIN filters' = DOMAIN filters
             /\ hot_filters' = {}
             /\ \A n \in DOMAIN filters :
                    IF filters[n].kind = "Filter" /\ n \notin hot_filters
                    THEN /\ filters'[n].kind = "Proxy"
                         /\ filters'[n].counters.page_outs = filters[n].counters.page_outs + 1
                    ELSE filters'[n] = filters[n]
       /\ (~DidColdTick /\ ~DidStartup) =>
             \A n \in AllNames : n \in hot_filters' <=> (n \in hot_filters \/ Accessed(n))]_vars

\* C6 witness: a sweep has paged one filter out and left another one real
C6_Witness ==
    \E n, m \in DOMAIN filters :
        /\ hot_filters = {}
        /\ filters[n].kind = "Proxy" /\ filters[n].counters.page_outs = 1
        /\ filters[m].kind = "Filter" /\ filters[m].counters.page_outs = 0
        /\ CounterChecks(filters[m].counters) = 1

\* C7: drop.  A drop of a registered name, real filter or proxy, answers
\* Done, takes the name out of the registry and of list, and leaves no
\* directory, no .mmap file and no config file of the filter.
C7_Drop ==
    [][\A n \in AllNames :
          (n \in DOMAIN filters /\ DidDrop(n)) =>
              /\ reply'.res = <<"Done">>
              /\ n \notin DOMAIN filters'
              /\ n \notin DOMAIN ListOf'
              /\ disk'[filters[n].path] = NoDir]_vars

\* C7 witness: a drop has been answered Done; the name and its directory
\* are gone
C7_Witness ==
    /\ reply.cmd = "drop" /\ reply.res = <<"Done">>
    /\ reply.name \notin DOMAIN filters
    /\ disk[PathOf(reply.name)] = NoDir

\* C8: close.  A close of a registered name answers Done, takes the name out
\* of the registry and of list and keeps the directory with its config and
\* its .mmap files, bits included; while a name is not registered every
\* check and set on it answers "Filter does not exist" and its files stay
\* as they are; a name gets registered by a create or by a start only.
C8_Close ==
    [][\A n \in AllNames :
          /\ (n \in DOMAIN filters /\ DidClose(n)) =>
                 LET p == filters[n].path
                 IN  /\ reply'.res = <<"Done">>
                     /\ n \notin DOMAIN filters'
                     /\ n \notin DOMAIN ListOf'
                     /\ disk'[p].exists /\ disk'[p].config.present
                     /\ Len(disk'[p].files) = Len(disk[p].files)
                     /\ Len(disk'[p].files) >= 1
                     /\ BitsOf(disk'[p]) = BitsOf(disk[p])
                     /\ disk'[p].config.cfg.size = EntryLen(filters[n])
          /\ n \notin DOMAIN filters =>
                 /\ \A k \in Keys : (DidCheck(n, k) \/ DidSet(n, k)) =>
                        /\ reply'.res = NotExist
                        /\ n \notin DOMAIN filters'
                 /\ n \in DOMAIN filters' => (DidStartup \/ \E c \in Customs : DidCreate(n, c))
                 /\ n \notin DOMAIN filters' => disk'[PathOf(n)] = disk[PathOf(n)]]_vars

\* C8 witness: a set on a closed filter, whose files hold keys, has been
\* answered "Filter does not exist"
C8_Witness ==
    \E n \in Names :
        /\ n \notin DOMAIN filters
        /\ reply.cmd = "set" /\ reply.name = n /\ reply.res = NotExist
        /\ disk[PathOf(n)].exists /\ disk[PathOf(n)].config.present
        /\ disk[PathOf(n)].config.cfg.size >= 1
        /\ \E i \in 1..Len(disk[PathOf(n)].files) : disk[PathOf(n)].files[i].bits # {}

\* C9: create of a registered name answers Exists and changes nothing: not
\* the entry (keys, counters, config), not the files, not the hot set,
\* whatever overrides it carries; create of an unregistered name answers
\* Done and registers it, so of two creates of a new name the first answers
\* Done and the second Exists.
C9_CreateExists ==
    [][\A n \in AllNames, c \in Customs :
          DidCreate(n, c) =>
              IF n \in DOMAIN filters
              THEN /\ reply'.res = <<"Exists">>
                   /\ filters' = filters
                   /\ disk' = disk
                   /\ hot_filters' = hot_filters
              ELSE /\ reply'.res = <<"Done">>
                   /\ n \in DOMAIN filters']_vars

\* C9 witness: a create has been answered Exists for a filter that holds a
\* key and default settings
C9_Witness ==
    \E n \in DOMAIN filters :
        /\ reply.cmd = "create" /\ reply.name = n /\ reply.res = <<"Exists">>
        /\ EntryLen(filters[n]) >= 1
        /\ filters[n].config.initial_capacity = InitialCapacity

\* C10: commands on a name that is not registered.  drop, close, check,
\* multi, set, bulk, info, flush and conf each answer "Filter does not
\* exist", register nothing and leave every directory and file as it is.
C10_NotExist ==
    [][\A n \in AllNames :
          (/\ n \notin DOMAIN filters
           /\ \/ DidDrop(n) \/ DidClose(n) \/ DidInfo(n) \/ DidFlush(n) \/ DidConf(n)
              \/ \E k \in Keys : DidCheck(n, k) \/ DidSet(n, k)
              \/ \E ks \in KeyLists : DidMulti(n, ks) \/ DidBulk(n, ks)) =>
              /\ reply'.res = NotExist
              /\ filters' = filters
              /\ disk' = disk]_vars

\* C10 witness: a bulk on a closed filter has been refused, its directory in
\* place
C10_Witness ==
    \E n \in Names :
        /\ n \notin DOMAIN filters
        /\ reply.cmd \in {"bulk", "multi", "close", "drop", "flush", "info", "conf"}
        /\ reply.name = n /\ reply.res = NotExist
        /\ disk[PathOf(n)].exists

\* C13: idempotent flush.  A flush of a real filter (by command or by the
\* flush tick) leaves it clean; flushing the result again changes neither
\* the entry nor its directory; and a flush of a filter that is already
\* clean leaves the entry and every file as they were.
C13_IdempotentFlush ==
    [][\A n \in DOMAIN filters :
          (filters[n].kind = "Filter" /\ (DidFlush(n) \/ DidFlushTick \/ DidFlushAll)) =>
              LET e1 == filters'[n]
                  d1 == disk'[e1.path]
                  again == FilterFlush(e1, d1)
              IN  /\ ~e1.dirty
                  /\ again.e = e1 /\ again.d = d1
                  /\ ~filters[n].dirty => (e1 = filters[n] /\ d1 = disk[e1.path])]_vars

\* C13 witness: a flush command has been answered for a filter that holds
\* keys in two files and is clean
C13_Witness ==
    \E n \in DOMAIN filters :
        /\ filters[n].kind = "Filter" /\ ~filters[n].dirty
        /\ Len(filters[n].filter) >= 2
        /\ disk[filters[n].path].config.present
        /\ disk[filters[n].path].config.cfg.size = FilterLen(filters[n])
        /\ reply.cmd = "flush" /\ reply.name = n /\ reply.res = <<"Done">>

\* C14: flush tick and flush-all.  After a flush tick and after a flush
\* command without a name every real filter of the registry is clean and the
\* config of its directory records its len, capacity and byte_size; the
\* registry keeps its names and the command answers Done.
C14_FlushAll ==
    [][(DidFlushTick \/ DidFlushAll) =>
          /\ DOMAIN filters' = DOMAIN filters
          /\ DidFlushAll => reply'.res = <<"Done">>
          /\ \A n \in DOMAIN filters' :
                 filters'[n].kind = "Filter" =>
                     LET e1 == filters'[n]
                         c == disk'[e1.path].config
                     IN  /\ ~e1.dirty
                         /\ c.present
                         /\ c.cfg.size = FilterLen(e1)
                         /\ c.cfg.capacity = FilterCapacity(e1)
                         /\ c.cfg.byte_size = FilterByteSize(e1)]_vars

\* C14 witness: two real filters, one of them holding a key, are clean after
\* a flush command without a name
C14_Witness ==
    \E n, m \in DOMAIN filters :
        /\ n # m
        /\ filters[n].kind = "Filter" /\ ~filters[n].dirty /\ FilterLen(filters[n]) >= 1
        /\ filters[m].kind = "Filter" /\ ~filters[m].dirty
        /\ reply.cmd = "flush" /\ reply.name = <<>> /\ reply.res = <<"Done">>

\* the shape every chain has: sub-filter i maps data file i, one file per
\* sub-filter, each capacity ScaleSize times the one before, every sub-filter
\* but the tail full
ChainShape(e, d) ==
    /\ Len(e.filter) = Len(d.files)
    /\ \A i \in 1..Len(e.filter) :
           /\ e.filter[i].file = i
           /\ e.filter[i].cap = d.files[i].cap
           /\ i > 1 => e.filter[i].cap = ScaleSize * e.filter[i - 1].cap
           /\ i < Len(e.filter) => e.filter[i].count >= e.filter[i].cap

\* the step is a set or bulk on n
DidAdd(n) == (\E k \in Keys : DidSet(n, k)) \/ (\E ks \in KeyLists : DidBulk(n, ks))

\* C18 as amended: scaling policy.  The directory gets a new data file only
\* in a set or bulk, and then the tail was full before or became full during
\* the command; a filter created without a directory starts with one
\* sub-filter of its initial_capacity; every chain has the shape above; a
\* chain holding fewer keys than its first capacity has one sub-filter, one
\* holding more has at least two.  With exactly that many keys it has one
\* sub-filter, or two once a further set (of a key already present) found the
\* tail full.
C18_Scaling ==
    [][\A n \in AllNames :
          /\ (n \notin DOMAIN filters /\ ~disk[PathOf(n)].exists /\ n \in DOMAIN filters') =>
                 /\ Len(filters'[n].filter) = 1
                 /\ filters'[n].filter[1].cap = filters'[n].config.initial_capacity
                 /\ FilterCapacity(filters'[n]) = filters'[n].config.initial_capacity
          /\ (n \in DOMAIN filters' /\ filters'[n].kind = "Filter") =>
                 LET e1 == filters'[n]
                 IN  /\ ChainShape(e1, disk'[e1.path])
                     /\ FilterLen(e1) < e1.filter[1].cap => Len(e1.filter) = 1
                     /\ FilterLen(e1) > e1.filter[1].cap => Len(e1.filter) >= 2
          /\ (n \in DOMAIN filters /\ n \in DOMAIN filters'
                 /\ Len(disk'[filters[n].path].files) > Len(disk[filters[n].path].files)) =>
                 LET fs == disk[filters[n].path].files
                     subs == FilterDiscover(disk[filters[n].path])
                 IN  /\ DidAdd(n)
                     /\ SBFLen(IF filters[n].kind = "Filter" THEN filters[n].filter ELSE subs)
                            + Len(reply'.res) >= fs[Len(fs)].cap
                     /\ EntryLen(filters'[n]) >= fs[Len(fs)].cap]_vars

\* C18 witness: a chain of two sub-filters in two data files, the second of
\* ScaleSize times the capacity of the first, holding more keys than the
\* first capacity
C18_Witness ==
    \E n \in DOMAIN filters :
        /\ filters[n].kind = "Filter"
        /\ Len(filters[n].filter) = 2
        /\ Len(disk[filters[n].path].files) = 2
        /\ filters[n].filter[2].cap = ScaleSize * filters[n].filter[1].cap
        /\ FilterLen(filters[n]) > filters[n].filter[1].cap

\* C18 as stated: a filter holding at most as many keys as its first
\* sub-filter's capacity has exactly one sub-filter and that capacity
C18_AtMostInitialCapacity ==
    \A n \in DOMAIN filters :
        (filters[n].kind = "Filter" /\ FilterLen(filters[n]) <= filters[n].filter[1].cap) =>
            /\ Len(filters[n].filter) = 1
            /\ FilterCapacity(filters[n]) = filters[n].filter[1].cap

\* the len a directory holds: the counts in the headers of its data files
PersistLen(d) == IF d.exists THEN SBFLen(FilterDiscover(d)) ELSE 0

\* the number of Yes in a reply
NumYes(res) == Cardinality({i \in 1..Len(res) : res[i] = "Yes"})

\* C19: size counts the Yes answers.  A filter created without a directory
\* reports size 0; while a name is registered each step leaves the reported
\* size (len, the size of info and list), real filter or proxy, at what it
\* was plus the number of Yes the step answered to a set or bulk on it; when
\* a name leaves the registry by close or shutdown its directory holds that
\* size, keeps it while the name is unregistered and gives it back when the
\* name is registered again.
C19_SizeCountsYes ==
    [][\A n \in AllNames :
          LET p == PathOf(n)
          IN  /\ (n \notin DOMAIN filters /\ n \in DOMAIN filters') =>
                     /\ EntryLen(filters'[n]) = PersistLen(disk[p])
                     /\ InfoOf(filters'[n]).size = PersistLen(disk[p])
              /\ (n \in DOMAIN filters /\ n \in DOMAIN filters') =>
                     /\ EntryLen(filters'[n]) =
                            EntryLen(filters[n]) + IF DidAdd(n) THEN NumYes(reply'.res) ELSE 0
                     /\ InfoOf(filters'[n]).size = EntryLen(filters'[n])
                     /\ ListOf'[n][4] = EntryLen(filters'[n])
              /\ (n \in DOMAIN filters /\ n \notin DOMAIN filters' /\ disk'[p].exists) =>
                     /\ PersistLen(disk'[p]) = EntryLen(filters[n])
                     /\ disk'[p].config.present
                     /\ disk'[p].config.cfg.size = EntryLen(filters[n])
              /\ (n \notin DOMAIN filters /\ n \notin DOMAIN filters') =>
                     PersistLen(disk'[p]) = PersistLen(disk[p])]_vars

\* C19 witness: a paged-out filter that answered Yes once and No once
\* reports size 1
C19_Witness ==
    \E n \in DOMAIN filters :
        /\ filters[n].kind = "Proxy"
        /\ filters[n].counters.page_outs >= 1
        /\ filters[n].counters.set_hits = 1
        /\ filters[n].counters.set_misses = 1
        /\ EntryLen(filters[n]) = 1
        /\ InfoOf(filters[n]).size = 1

\* C15: a failing flush in the flush tick.  When the flush of a filter
\* raises in the tick, that filter stays dirty, the server keeps running,
\* every other real filter of the registry is flushed by the tick, and the
\* flush tick stays scheduled, to flush the dirty filter again.
C15_FlushFailure ==
    [][\A n \in AllNames, before \in SUBSET AllNames, at \in FlushFailures :
          DidFlushTickFail(n, before, at) =>
              /\ filters'[n].dirty
              /\ running'
              /\ \A m \in DOMAIN filters' \ {n} :
                     filters'[m].kind = "Filter" => ~filters'[m].dirty
              /\ schedule_flush']_vars

\* C16: a start over a damaged directory.  A start registers every filter
\* directory whose config file unpickles or is missing, the latter with the
\* manager's defaults, skips every directory whose config file does not
\* unpickle, and leaves the manager running.
C16_StartupSkipsUnreadable ==
    [][(DidStartup \/ DidStartupFail) =>
          /\ running'
          /\ \A n \in AllNames :
                 LET d == disk[PathOf(n)]
                 IN  d.exists =>
                         IF d.config = Unreadable
                         THEN n \notin DOMAIN filters'
                         ELSE /\ n \in DOMAIN filters'
                              /\ ~d.config.present =>
                                     filters'[n].config =
                                         ProxyInit(ManagerConfig, PathOf(n), NoConfig).config]_vars

\* C17: a failing fault-in.  When the fault-in of a proxy raises in a check
\* or set, the registry keeps the same proxy under the name, counters and
\* config as before, no file changes, the command answers Internal Error,
\* and a check or set after it faults the filter in with one more page-in.
C17_FaultInFailure ==
    [][\A n \in AllNames, cmd \in {"check", "set"} :
          DidFaultInFail(cmd, n) =>
              /\ DOMAIN filters' = DOMAIN filters
              /\ filters'[n].kind = "Proxy"
              /\ filters'[n] = filters[n]
              /\ disk' = disk
              /\ reply'.res = <<"Internal Error">>
              /\ \A k \in Keys2 :
                     LET a == EntryAdd(filters'[n], disk'[filters'[n].path], k)
                         c == EntryContains(filters'[n], disk'[filters'[n].path], k)
                     IN  /\ a.e.kind = "Filter" /\ c.e.kind = "Filter"
                         /\ a.e.counters.page_ins = filters[n].counters.page_ins + 1
                         /\ c.e.counters.page_ins = filters[n].counters.page_ins + 1
                         /\ c.res = DiskTests(disk[filters[n].path], k)]_vars

\* C17 witness: a set on a paged-out filter holding a key has been answered
\* Internal Error and the proxy is in the registry
C17_Witness ==
    \E n \in DOMAIN filters :
        /\ filters[n].kind = "Proxy"
        /\ filters[n].counters.page_outs = 1
        /\ filters[n].counters.page_ins = 1
        /\ EntryLen(filters[n]) = 1
        /\ reply.cmd = "set" /\ reply.name = n /\ reply.res = <<"Internal Error">>

\* the Client Error replies of create
ClientErrors ==
    {<<"Client Error: Bad initial capacity!">>,
     <<"Client Error: Bad false positive probability!">>}

C11_ConcurrentDrop ==
    [][\A n \in Names :
          /\ \A cmd \in {"set", "bulk"} :
                 DidReplyKeys(cmd, n) =>
                     IF n \in DOMAIN filters
                     THEN /\ inflight.name = n /\ inflight.cmd = cmd
                          /\ n \in DOMAIN filters'
                          /\ Len(reply'.res) = Len(inflight.all)
                          /\ \A i \in 1..Len(reply'.res) : reply'.res[i] \in {"Yes", "No"}
                     ELSE reply'.res = NotExist
          /\ (inflight # NoOp /\ inflight.name = n) => n \in DOMAIN filters'
          /\ (n \in DOMAIN filters /\ n \notin DOMAIN filters') =>
                 /\ DidDrop(n) \/ DidClose(n)
                 /\ reply'.res = <<"Done">>
          /\ (n \notin DOMAIN filters /\ n \in DOMAIN filters') => DidCreate(n, NoCustom)]_vars

\* C11 witness: after sets answered Yes and a close, a set on the name is
\* answered 'Filter does not exist'; the keys are in the files left behind
C11_Witness ==
    \E n \in Names :
        /\ n \notin DOMAIN filters
        /\ disk[PathOf(n)].exists
        /\ \E i \in 1..Len(disk[PathOf(n)].files) : disk[PathOf(n)].files[i].bits # {}
        /\ inflight = NoOp
        /\ reply = Reply("set", n, NotExist)

C21_BadNameRefused ==
    [][\A n \in AllNames :
          (DidCreate(n, NoCustom) /\ ~ValidNamesFullMatch(n)) =>
              /\ reply'.res = <<"Client Error: Bad filter name">>
              /\ filters' = filters
              /\ disk' = disk]_vars

\* C22: a line that is no command.  Every line whose first token is none of
\* the documented commands answers Client Error: Command not supported and
\* changes neither the registry, the hot set nor any file.
C22_UnknownCommand ==
    [][\A cmd \in OtherTokens :
          DidOtherLine(cmd) =>
              /\ reply'.res = <<"Client Error: Command not supported">>
              /\ filters' = filters
              /\ hot_filters' = hot_filters
              /\ disk' = disk]_vars

\* what check / multi (set / bulk) of the keys does in the current state
AsCheck(n, keys, Fmt(_)) ==
    IF n \notin DOMAIN filters
    THEN /\ reply'.res = NotExist
         /\ filters' = filters /\ hot_filters' = hot_filters /\ disk' = disk
    ELSE LET r == check_keys(n, keys)
         IN  /\ reply'.res = Fmt(r.res)
             /\ filters' = r.filters /\ hot_filters' = r.hot /\ disk' = r.disk
AsSet(n, keys, Fmt(_)) ==
    IF n \notin DOMAIN filters
    THEN /\ reply'.res = NotExist
         /\ filters' = filters /\ hot_filters' = hot_filters /\ disk' = disk
    ELSE LET r == set_keys(n, keys)
         IN  /\ reply'.res = Fmt(r.res)
             /\ filters' = r.filters /\ hot_filters' = r.hot /\ disk' = r.disk

\* C23: the aliases.  c, m, s and b answer and change what check, multi,
\* set and bulk answer and change on the same name and keys; m inserts
\* nothing.
C23_Aliases ==
    [][\A n \in NamesL :
          /\ \A k \in Keys : DidAliasC(n, k) => AsCheck(n, <<k>>, FmtOne)
          /\ \A k \in Keys : DidAliasS(n, k) => AsSet(n, <<k>>, FmtOne)
          /\ \A ks \in KeyLists : DidAliasB(n, ks) => AsSet(n, ks, FmtAll)
          /\ \A ks \in KeyLists :
                 DidAliasM(n, ks) =>
                     /\ AsCheck(n, ks, FmtAll)
                     /\ n \in DOMAIN filters =>
                            \A k \in Keys :
                                Tests(filters', disk', n, k) = Tests(filters, disk, n, k)]_vars

\* C24: multi and bulk.  A multi (bulk) of one or two keys answers one Yes/No
\* per key, in key order, each the answer of a check (set) of that key sent
\* after the keys before it, and leaves the entry and files those checks
\* (sets) leave; a check (set) answers what contains (add) returns; a multi
\* changes neither the membership of any key nor the size.
C24_MultiBulk ==
    [][\A n \in NamesL :
          n \in DOMAIN filters =>
              LET e == filters[n]
                  d == disk[e.path]
              IN  /\ \A k \in Keys :
                         /\ DidCheck(n, k) =>
                                /\ reply'.res = <<YesNo(EntryContains(e, d, k).res)>>
                                /\ filters'[n] = EntryContains(e, d, k).e
                                /\ disk'[e.path] = EntryContains(e, d, k).d
                         /\ DidSet(n, k) =>
                                /\ reply'.res = <<YesNo(EntryAdd(e, d, k).res)>>
                                /\ filters'[n] = EntryAdd(e, d, k).e
                                /\ disk'[e.path] = EntryAdd(e, d, k).d
                  /\ \A ks \in KeyLists :
                         /\ DidMulti(n, ks) =>
                                LET c1 == EntryContains(e, d, ks[1])
                                    c2 == IF Len(ks) = 1 THEN c1
                                          ELSE EntryContains(c1.e, c1.d, ks[2])
                                IN  /\ Len(reply'.res) = Len(ks)
                                    /\ reply'.res[1] = YesNo(c1.res)
                                    /\ Len(ks) = 2 => reply'.res[2] = YesNo(c2.res)
                                    /\ filters'[n] = c2.e
                                    /\ disk'[e.path] = c2.d
                                    /\ \A i \in 1..Len(ks) :
                                           reply'.res[i] = YesNo(Tests(filters, disk, n, ks[i]))
                                    /\ \A k \in Keys :
                                           Tests(filters', disk', n, k) = Tests(filters, disk, n, k)
                                    /\ EntryLen(filters'[n]) = EntryLen(e)
                         /\ DidBulk(n, ks) =>
                                LET a1 == EntryAdd(e, d, ks[1])
                                    a2 == IF Len(ks) = 1 THEN a1
                                          ELSE EntryAdd(a1.e, a1.d, ks[2])
                                IN  /\ Len(reply'.res) = Len(ks)
                                    /\ reply'.res[1] = YesNo(a1.res)
                                    /\ Len(ks) = 2 => reply'.res[2] = YesNo(a2.res)
                                    /\ filters'[n] = a2.e
                                    /\ disk'[e.path] = a2.d]_vars

\* C24 witness: a multi of a key that was set and a key that was not has
\* answered Yes No on a filter of size 1
C24_Witness ==
    \E n \in DOMAIN filters :
        /\ reply = Reply("multi", n, <<"Yes", "No">>)
        /\ EntryLen(filters[n]) = 1
        /\ filters[n].counters.check_hits = 1
        /\ filters[n].counters.check_misses = 1

\* C25: shutdown.  FilterManager.close() leaves the registry empty and both
\* LoopingCalls stopped; every real filter it closes is clean with its
\* chain released, its directory holding the config with its size and the
\* headers with the counts of its sub-filters; and no flush or cold tick
\* runs while the manager is down.
C25_Shutdown ==
    [][/\ DidShutdown =>
              /\ filters' = << >>
              /\ ~schedule_flush' /\ ~schedule_cold'
              /\ \A n \in DOMAIN filters :
                     LET e == filters[n]
                         c == EntryClose(e, disk[e.path])
                     IN  e.kind = "Filter" =>
                              /\ ~c.e.dirty
                              /\ c.e.filter = NoFilter
                              /\ disk'[e.path].exists
                              /\ disk'[e.path].config.present
                              /\ disk'[e.path].config.cfg.size = FilterLen(e)
                              /\ Len(disk'[e.path].files) = Len(e.filter)
                              /\ \A i \in 1..Len(e.filter) :
                                     disk'[e.path].files[e.filter[i].file].count = e.filter[i].count
                              /\ BitsOf(disk'[e.path]) = BitsOf(disk[e.path])
       /\ ~running =>
              /\ filters = << >>
              /\ ~schedule_flush /\ ~schedule_cold
              /\ ~DidFlushTick /\ ~DidColdTick]_vars

\* C25 witness: the manager is down, its timers stopped, and the two filters
\* it closed are on disk with their configs, one of them holding a key
C25_Witness ==
    /\ ~running /\ ~schedule_flush /\ ~schedule_cold
    /\ filters = << >>
    /\ \A n \in Names2 : disk[PathOf(n)].exists /\ disk[PathOf(n)].config.present
    /\ \E n \in Names2 :
           /\ disk[PathOf(n)].config.cfg.size = 1
           /\ disk[PathOf(n)].files[1].count = 1

\* C26 as amended: add marks dirty.  Every set or bulk on a registered name
\* leaves its entry a dirty real filter, whether the keys were new (Yes) or
\* not (No); a check on a real filter leaves dirty as it was.
C26_AddMarksDirty ==
    [][\A n \in Names :
          n \in DOMAIN filters =>
              /\ \A k \in Keys :
                     /\ DidSet(n, k) => filters'[n].kind = "Filter" /\ filters'[n].dirty
                     /\ (DidCheck(n, k) /\ filters[n].kind = "Filter") =>
                            filters'[n].dirty = filters[n].dirty
              /\ \A ks \in KeyLists :
                     DidBulk(n, ks) => filters'[n].kind = "Filter" /\ filters'[n].dirty]_vars

\* C26 witness: a filter flushed with one key has answered No to a set and
\* is dirty
C26_Witness ==
    \E n \in DOMAIN filters :
        /\ filters[n].kind = "Filter" /\ filters[n].dirty
        /\ filters[n].counters.page_outs = 0
        /\ filters[n].counters.set_hits = 1 /\ filters[n].counters.set_misses = 1
        /\ disk[filters[n].path].config.present
        /\ disk[filters[n].path].config.cfg.size = 1
        /\ reply.cmd = "set" /\ reply.name = n /\ reply.res = <<"No">>

\* C26 as stated: a set on a real filter marks it dirty when it answers Yes
\* and leaves dirty as it was when it answers No
C26_DirtyOnHitOnly ==
    [][\A n \in Names, k \in Keys :
          (n \in DOMAIN filters /\ DidSet(n, k)) =>
              (filters[n].kind = "Filter" =>
                  IF reply'.res = <<"Yes">>
                  THEN filters'[n].dirty
                  ELSE filters'[n].dirty = filters[n].dirty)]_vars

\* C27 as amended: close, then access.  A close keeps the directory, its
\* config and its data files; a check or set of the closed name answers
\* 'Filter does not exist', registers nothing and touches no file; the
\* next start registers the directory as a proxy with the config and size
\* on disk; a create of the name registers a real filter over the files
\* that were kept.
C27_CloseThenAccess ==
    [][\A n \in Names :
          LET p == PathOf(n)
          IN  /\ (n \in DOMAIN filters /\ DidClose(n)) =>
                     /\ disk'[p].exists /\ disk'[p].config.present
                     /\ BitsOf(disk'[p]) = BitsOf(disk[p])
              /\ (n \notin DOMAIN filters /\ disk[p].exists) =>
                     /\ \A k \in Keys :
                            (DidCheck(n, k) \/ DidSet(n, k)) =>
                                /\ reply'.res = NotExist
                                /\ filters' = filters
                                /\ disk' = disk
                     /\ DidStartup =>
                            /\ n \in DOMAIN filters'
                            /\ filters'[n].kind = "Proxy"
                            /\ filters'[n].counters = NewCounters
                            /\ disk[p].config.present =>
                                   filters'[n].config = disk[p].config.cfg
                            /\ \A k \in Keys :
                                   Tests(filters', disk', n, k) = DiskTests(disk[p], k)
                     /\ \A c \in Customs :
                            DidCreate(n, c) =>
                                /\ filters'[n].kind = "Filter"
                                /\ Len(filters'[n].filter) = Len(disk[p].files)
                                /\ \A k \in Keys :
                                       Tests(filters', disk', n, k) = DiskTests(disk[p], k)]_vars

\* C27 witness: a check of a closed filter holding a key was answered
\* 'Filter does not exist'; after a start the name is a proxy again
C27_Witness ==
    \E n \in DOMAIN filters :
        /\ running
        /\ filters[n].kind = "Proxy"
        /\ filters[n].counters = NewCounters
        /\ filters[n].config.size = 1
        /\ \E k \in Keys : reply = Reply("check", n, NotExist) /\ DiskTests(disk[filters[n].path], k)

\* C27 as stated: the check or set after a close registers the name again
\* and is answered
C27_NextAccessReconstructs ==
    [][\A n \in Names, k \in Keys :
          (n \notin DOMAIN filters /\ disk[PathOf(n)].exists
               /\ (DidCheck(n, k) \/ DidSet(n, k))) =>
              /\ n \in DOMAIN filters'
              /\ reply'.res # NotExist]_vars

\* the four hit / miss counters of an entry
HitMiss(c) == <<c.set_hits, c.set_misses, c.check_hits, c.check_misses>>

\* n is the name of a check, multi, set or bulk step
KeyStepOn(n) ==
    \/ \E k \in Keys : DidCheck(n, k) \/ DidSet(n, k)
    \/ \E ks \in KeyLists : DidMulti(n, ks) \/ DidBulk(n, ks)

\* C28: counters across paging.  A cold sweep gives the proxy of each filter
\* it pages out the filter's counters with page_outs one higher and leaves
\* the counters of every other entry alone; the fault-in of a proxy yields
\* its counters with page_ins one higher, and the check or set that faults
\* it in leaves page_ins one higher, page_outs as it was and the hit / miss
\* counters changed by its own answers only; no other step changes
\* page_outs or page_ins of a registered entry.
C28_PagingCounters ==
    [][\A n \in Names :
          (n \in DOMAIN filters /\ n \in DOMAIN filters') =>
              LET e == filters[n]
                  c == e.counters
                  c1 == filters'[n].counters
              IN  /\ DidColdTick =>
                         IF n \in ColdFilters
                         THEN /\ filters'[n].kind = "Proxy"
                              /\ c1 = [c EXCEPT !.page_outs = @ + 1]
                         ELSE c1 = c
                  /\ e.kind = "Proxy" =>
                         /\ FaultAttr(e, disk[e.path]).e.counters = [c EXCEPT !.page_ins = @ + 1]
                         /\ filters'[n].kind = "Filter" =>
                                /\ KeyStepOn(n)
                                /\ c1.page_ins = c.page_ins + 1
                                /\ c1.page_outs = c.page_outs
                                /\ \A k \in Keys :
                                       /\ DidCheck(n, k) =>
                                              HitMiss(c1) =
                                                  IF reply'.res = <<"Yes">>
                                                  THEN HitMiss([c EXCEPT !.check_hits = @ + 1])
                                                  ELSE HitMiss([c EXCEPT !.check_misses = @ + 1])
                                       /\ DidSet(n, k) =>
                                              HitMiss(c1) =
                                                  IF reply'.res = <<"Yes">>
                                                  THEN HitMiss([c EXCEPT !.set_hits = @ + 1])
                                                  ELSE HitMiss([c EXCEPT !.set_misses = @ + 1])
                  /\ c1.page_outs # c.page_outs => DidColdTick
                  /\ c1.page_ins # c.page_ins =>
                         e.kind = "Proxy" /\ filters'[n].kind = "Filter"]_vars

\* C28 witness: a filter that answered Yes to a set was paged out and
\* faulted in by a check answering No
C28_Witness ==
    \E n \in DOMAIN filters :
        /\ filters[n].kind = "Filter"
        /\ filters[n].counters =
               [set_hits |-> 1, set_misses |-> 0, check_hits |-> 0, check_misses |-> 1,
                page_outs |-> 1, page_ins |-> 2]
        /\ reply = Reply("check", n, <<"No">>)

\* C29: hit and miss counters.  A check (set) adds one to check_hits
\* (set_hits) when it answers Yes and one to check_misses (set_misses) when
\* it answers No, a multi (bulk) does so per key, and each leaves the other
\* pair alone; every other step leaves the four counters of a registered
\* entry alone; a name entering the registry has all four at 0.  So checks
\* and sets count the keys checked and set since the create or discovery.
C29_HitMissCounters ==
    [][\A n \in Names :
          /\ (n \in DOMAIN filters /\ n \in DOMAIN filters') =>
                 LET c == filters[n].counters
                     c1 == filters'[n].counters
                 IN  /\ \A k \in Keys :
                            /\ DidCheck(n, k) =>
                                   /\ HitMiss(c1) =
                                          IF reply'.res = <<"Yes">>
                                          THEN HitMiss([c EXCEPT !.check_hits = @ + 1])
                                          ELSE HitMiss([c EXCEPT !.check_misses = @ + 1])
                                   /\ reply'.res = <<"Yes">> <=> Tests(filters, disk, n, k)
                            /\ DidSet(n, k) =>
                                   HitMiss(c1) =
                                       IF reply'.res = <<"Yes">>
                                       THEN HitMiss([c EXCEPT !.set_hits = @ + 1])
                                       ELSE HitMiss([c EXCEPT !.set_misses = @ + 1])
                     /\ \A ks \in KeyLists :
                            /\ DidMulti(n, ks) =>
                                   HitMiss(c1) =
                                       HitMiss([c EXCEPT
                                                   !.check_hits = @ + NumYes(reply'.res),
                                                   !.check_misses = @ + Len(ks) - NumYes(reply'.res)])
                            /\ DidBulk(n, ks) =>
                                   HitMiss(c1) =
                                       HitMiss([c EXCEPT
                                                   !.set_hits = @ + NumYes(reply'.res),
                                                   !.set_misses = @ + Len(ks) - NumYes(reply'.res)])
                     /\ ~KeyStepOn(n) => HitMiss(c1) = HitMiss(c)
          /\ (n \notin DOMAIN filters /\ n \in DOMAIN filters') =>
                 /\ HitMiss(filters'[n].counters) = <<0, 0, 0, 0>>
                 /\ CounterChecks(filters'[n].counters) = 0
                 /\ CounterSets(filters'[n].counters) = 0]_vars

\* C29 witness: an entry that answered Yes and No to two sets and No to a
\* check
C29_Witness ==
    \E n \in DOMAIN filters :
        /\ HitMiss(filters[n].counters) = <<1, 1, 0, 1>>
        /\ CounterSets(filters[n].counters) = 2
        /\ CounterChecks(filters[n].counters) = 1

\* C30: the reporting commands.  info, list and conf change no entry, no
\* file and not the hot set; the size, capacity and storage they report for
\* a proxy are the ones of its config.
C30_Reporting ==
    [][\A n \in Names :
          /\ (DidInfo(n) \/ DidConf(n) \/ DidList) =>
                 /\ filters' = filters
                 /\ hot_filters' = hot_filters
                 /\ disk' = disk
          /\ (n \in DOMAIN filters /\ filters[n].kind = "Proxy") =>
                 LET cfg == filters[n].config
                 IN  /\ InfoOf(filters[n]).size = cfg.size
                     /\ InfoOf(filters[n]).capacity = cfg.capacity
                     /\ InfoOf(filters[n]).storage = cfg.byte_size
                     /\ ListOf[n] = <<cfg.default_probability, cfg.byte_size,
                                      cfg.capacity, cfg.size>>]_vars

\* C30 witness: info has been answered for a paged-out filter holding a key
\* that is not in the hot set
C30_Witness ==
    \E n \in DOMAIN filters :
        /\ filters[n].kind = "Proxy"
        /\ filters[n].counters.page_outs = 1
        /\ filters[n].config.size = 1
        /\ n \notin hot_filters
        /\ reply = Reply("info", n, MapReply)

\* C31: flush and close of a proxy are no-ops.  For every registered proxy
\* n: flush() and close() return the entry and its directory as they are; a
\* flush command for n, a flush command without a name and a flush tick
\* leave the entry (a Proxy, its counters and its config) and every file of
\* its directory unchanged; and a close command for n or a shutdown leaves
\* its directory unchanged.
C31_ProxyFlushCloseNoOp ==
    [][\A n \in DOMAIN filters :
          filters[n].kind = "Proxy" =>
              LET p == filters[n]
                  d == disk[p.path]
              IN  /\ EntryFlush(p, d) = [e |-> p, d |-> d]
                  /\ EntryClose(p, d) = [e |-> p, d |-> d]
                  /\ (DidFlush(n) \/ DidFlushAll \/ DidFlushTick) =>
                         /\ n \in DOMAIN filters'
                         /\ filters'[n] = p
                         /\ disk'[p.path] = d
                  /\ (DidClose(n) \/ DidShutdown) =>
                         /\ n \notin DOMAIN filters'
                         /\ disk'[p.path] = d]_vars

\* C31 witness: a flush command has been answered for a proxy that was paged
\* out with a key in it and is still a proxy
C31_Witness ==
    \E n \in DOMAIN filters :
        /\ filters[n].kind = "Proxy"
        /\ filters[n].counters.page_outs >= 1
        /\ filters[n].config.size >= 1
        /\ reply.cmd = "flush" /\ reply.name = n /\ reply.res = <<"Done">>

\* the step is a flush: a flush command with or without a name, or a flush tick
DidAnyFlush == (\E m \in AllNames : DidFlush(m)) \/ DidFlushAll \/ DidFlushTick

\* C32: a flush changes no answer.  Over every flush step (a flush command
\* for any name, a flush command without a name, a flush tick) every
\* registered filter stays registered with the same kind, and for every key
\* the answer of a check and the answer of a set are the same after the
\* flush as before it; its len, capacity and byte_size and its counters are
\* unchanged.  So a key that tested present before the flush tests present
\* after it, and a set of a key that tested absent before the flush answers
\* Yes after it.
C32_FlushChangesNoAnswer ==
    [][DidAnyFlush =>
          \A n \in DOMAIN filters :
              /\ n \in DOMAIN filters'
              /\ filters'[n].kind = filters[n].kind
              /\ filters'[n].counters = filters[n].counters
              /\ EntryLen(filters'[n]) = EntryLen(filters[n])
              /\ EntryCapacity(filters'[n]) = EntryCapacity(filters[n])
              /\ EntryByteSize(filters'[n]) = EntryByteSize(filters[n])
              /\ \A k \in Keys :
                     LET before == Tests(filters, disk, n, k)
                         after == Tests(filters', disk', n, k)
                         e1 == filters'[n]
                     IN  /\ after = before
                         /\ EntryAdd(e1, disk'[e1.path], k).res = ~before]_vars

\* C32 witness: a set of a second new key has answered Yes on a filter whose
\* config, written by a flush between the two sets, records the first key only
C32_Witness ==
    \E n \in DOMAIN filters :
        /\ filters[n].kind = "Filter"
        /\ FilterLen(filters[n]) = 2
        /\ disk[filters[n].path].config.present
        /\ disk[filters[n].path].config.cfg.size = 1
        /\ reply.cmd = "set" /\ reply.name = n /\ reply.res = <<"Yes">>

\* C33: discovered filters are proxies.  A start registers every directory
\* of the data_dir, each as a Proxy without a ScalingBloomFilter and with
\* all counters 0, that reports the size, capacity and byte_size of the
\* config file of its directory, or size 0, capacity initial_capacity and
\* byte_size 0 when the directory has no config file.  A registered proxy
\* becomes a real Filter only in a check, multi, set or bulk step on its
\* name, and while it stays a registered proxy it does not change.
C33_DiscoveredAreProxies ==
    [][/\ DidStartup =>
              /\ \A path \in Paths :
                     disk[path].exists => \E n \in DOMAIN filters' : filters'[n].path = path
              /\ \A n \in DOMAIN filters' :
                     LET p == filters'[n]
                         d == disk[p.path]
                     IN  /\ p.kind = "Proxy"
                         /\ p.filter = NoFilter
                         /\ p.counters = NewCounters
                         /\ d.exists
                         /\ IF d.config.present
                            THEN /\ EntryLen(p) = d.config.cfg.size
                                 /\ EntryCapacity(p) = d.config.cfg.capacity
                                 /\ EntryByteSize(p) = d.config.cfg.byte_size
                            ELSE /\ EntryLen(p) = 0
                                 /\ EntryCapacity(p) = ManagerConfig.initial_capacity
                                 /\ EntryByteSize(p) = 0
       /\ \A n \in DOMAIN filters :
              (filters[n].kind = "Proxy" /\ n \in DOMAIN filters') =>
                  IF filters'[n].kind = "Filter"
                  THEN KeyStepOn(n)
                  ELSE filters'[n] = filters[n]]_vars

\* C33 witness: after a start, one discovered proxy reports the key its
\* config file records and another, whose directory holds a data file and no
\* config file, reports size 0
C33_Witness ==
    /\ running
    /\ \E n, m \in DOMAIN filters :
           /\ filters[n].kind = "Proxy" /\ filters[n].counters = NewCounters
           /\ disk[filters[n].path].config.present
           /\ disk[filters[n].path].config.cfg.size >= 1
           /\ EntryLen(filters[n]) >= 1
           /\ filters[m].kind = "Proxy" /\ filters[m].counters = NewCounters
           /\ ~disk[filters[m].path].config.present
           /\ Len(disk[filters[m].path].files) >= 1
           /\ EntryLen(filters[m]) = 0

\* C34: page-in / page-out balance.  In every reachable state a registered
\* real Filter has page_ins = page_outs + 1 and a registered proxy has
\* page_ins = page_outs.
C34_PageBalance ==
    \A n \in DOMAIN filters :
        LET c == filters[n].counters
        IN  IF filters[n].kind = "Filter"
            THEN c.page_ins = c.page_outs + 1
            ELSE c.page_ins = c.page_outs

\* C34 witness: a filter that was created, paged out by a sweep and faulted
\* in again
C34_Witness ==
    \E n \in DOMAIN filters :
        /\ filters[n].kind = "Filter"
        /\ filters[n].counters.page_outs = 1
        /\ filters[n].counters.page_ins = 2

\* the config cfg records the len, total capacity and total bitmap size of
\* the chain of the real filter e
ConfigCurrent(cfg, e) ==
    /\ cfg.size = FilterLen(e)
    /\ cfg.capacity = FilterCapacity(e)
    /\ cfg.byte_size = FilterByteSize(e)

\* C35: a clean filter's config is current.  After every step, each
\* registered real Filter that is clean has, in its config dict and in the
\* config file of its directory, the len, total capacity and total bitmap
\* size of its chain.  Every Filter a step constructs (by a create or by the
\* fault-in of a proxy) is dirty when the step ends, and the fault-in of
\* every registered proxy yields a dirty Filter; so the first flush of a
\* constructed Filter (by command or by tick) writes the config file.
C35_CleanConfigCurrent ==
    [][/\ \A n \in DOMAIN filters' :
              LET e1 == filters'[n]
                  d1 == disk'[e1.path]
              IN  (e1.kind = "Filter" /\ ~e1.dirty) =>
                      /\ ConfigCurrent(e1.config, e1)
                      /\ d1.config.present
                      /\ ConfigCurrent(d1.config.cfg, e1)
       /\ \A n \in DOMAIN filters' :
              (filters'[n].kind = "Filter"
                   /\ (n \notin DOMAIN filters \/ filters[n].kind = "Proxy")) =>
                  filters'[n].dirty
       /\ \A n \in DOMAIN filters :
              filters[n].kind = "Proxy" => FaultAttr(filters[n], disk[filters[n].path]).e.dirty
       /\ \A n \in DOMAIN filters :
              (filters[n].kind = "Filter" /\ filters[n].dirty
                   /\ (DidFlush(n) \/ DidFlushAll \/ DidFlushTick)) =>
                  /\ ~filters'[n].dirty
                  /\ disk'[filters[n].path].config.present
                  /\ disk'[filters[n].path].config.cfg = filters'[n].config]_vars

\* C35 witness: a filter that was faulted in by a check, holds two keys in
\* two files and has been flushed by a flush command is clean
C35_Witness ==
    \E n \in DOMAIN filters :
        /\ filters[n].kind = "Filter" /\ ~filters[n].dirty
        /\ filters[n].counters.page_ins = 2
        /\ CounterChecks(filters[n].counters) >= 1
        /\ FilterLen(filters[n]) = 2 /\ Len(filters[n].filter) = 2
        /\ ConfigCurrent(disk[filters[n].path].config.cfg, filters[n])
        /\ reply.cmd = "flush" /\ reply.res = <<"Done">>

\* no two registered real Filters are over one directory in the registry f
OneOpenPerDirectory(f) ==
    \A n, m \in DOMAIN f :
        (n # m /\ f[n].kind = "Filter" /\ f[m].kind = "Filter") => f[n].path # f[m].path

\* C36: one open ScalingBloomFilter per directory.  After every step no two
\* registered real Filters are over the same directory.  A real Filter
\* that a step unregisters or replaces by a proxy has been closed: its
\* directory is the one Filter.close leaves, or is removed.  A real Filter
\* that stays registered is not constructed again (same directory, same
\* page_ins).  A step that turns a proxy into a real Filter faults it in
\* once, however many keys the command carries: page_ins grows by one.
C36_OneOpenFilterPerDirectory ==
    [][/\ OneOpenPerDirectory(filters')
       /\ \A n \in DOMAIN filters :
              LET e == filters[n]
                  c == FilterClose(e, disk[e.path])
              IN  /\ (e.kind = "Filter" /\ (n \notin DOMAIN filters' \/ filters'[n].kind = "Proxy")) =>
                         disk'[e.path] \in {c.d, NoDir}
                  /\ (e.kind = "Filter" /\ n \in DOMAIN filters' /\ filters'[n].kind = "Filter") =>
                         /\ filters'[n].path = e.path
                         /\ filters'[n].counters.page_ins = e.counters.page_ins
                  /\ (e.kind = "Proxy" /\ n \in DOMAIN filters' /\ filters'[n].kind = "Filter") =>
                         /\ filters'[n].path = e.path
                         /\ filters'[n].counters.page_ins = e.counters.page_ins + 1]_vars

\* C37: no closed Filter is registered.  In every reachable state each
\* entry of the registry is a proxy or a real Filter whose
\* ScalingBloomFilter is open (self.filter is not None).
C37_NoClosedFilterRegistered ==
    \A n \in DOMAIN filters :
        \/ filters[n].kind = "Proxy"
        \/ filters[n].kind = "Filter" /\ filters[n].filter # NoFilter

\* C38: the hot set holds registered names only.  After every step of a
\* running server each name of the hot set is registered; a check, multi,
\* set or bulk of a name that is not registered leaves the hot set as it
\* was; and a drop or close of a registered name leaves the name outside
\* the hot set.
C38_HotSetRegistered ==
    [][/\ running' => hot_filters' \subseteq DOMAIN filters'
       /\ \A n \in AllNames :
              /\ (n \notin DOMAIN filters /\ KeyStepOn(n)) => hot_filters' = hot_filters
              /\ (n \in DOMAIN filters /\ (DidDrop(n) \/ DidClose(n))) => n \notin hot_filters']_vars

\* C39: create after close adopts the files.  A close of a registered name
\* leaves a directory that holds every key the entry tested present and,
\* in the headers of its files, the size the entry reported; while the name
\* is unregistered its directory does not change; and a create of an
\* unregistered name over such a directory answers Done and registers a
\* real Filter over the same files in which every key of the directory
\* tests present, a set of it answers No, len is the size of the
\* directory, and the four hit / miss counters are 0.
C39_CreateAfterClose ==
    [][\A n \in Names :
          LET p == PathOf(n)
          IN  /\ (n \in DOMAIN filters /\ DidClose(n)) =>
                     /\ n \notin DOMAIN filters'
                     /\ disk'[p].exists
                     /\ PersistLen(disk'[p]) = EntryLen(filters[n])
                     /\ \A k \in Keys : Tests(filters, disk, n, k) => DiskTests(disk'[p], k)
              /\ (n \notin DOMAIN filters /\ n \notin DOMAIN filters') => disk'[p] = disk[p]
              /\ \A c \in Customs :
                     (n \notin DOMAIN filters /\ disk[p].exists /\ DidCreate(n, c)) =>
                         /\ reply'.res = <<"Done">>
                         /\ n \in DOMAIN filters'
                         /\ LET e1 == filters'[n]
                            IN  /\ e1.kind = "Filter" /\ e1.path = p
                                /\ BitsOf(disk'[p]) = BitsOf(disk[p])
                                /\ FilterLen(e1) = PersistLen(disk[p])
                                /\ HitMiss(e1.counters) = <<0, 0, 0, 0>>
                                /\ \A k \in Keys :
                                       DiskTests(disk[p], k) =>
                                           /\ Tests(filters', disk', n, k)
                                           /\ ~EntryAdd(e1, disk'[p], k).res]_vars

\* C39 witness: a create has been answered Done for a name whose new entry
\* holds two keys in two files and has counted no set and no check
C39_Witness ==
    \E n \in DOMAIN filters :
        /\ filters[n].kind = "Filter"
        /\ FilterLen(filters[n]) = 2 /\ Len(filters[n].filter) = 2
        /\ HitMiss(filters[n].counters) = <<0, 0, 0, 0>>
        /\ filters[n].counters.page_ins = 1
        /\ reply.cmd = "create" /\ reply.name = n /\ reply.res = <<"Done">>

====
